---------------------------- MODULE Spec2Model ----------------------------
(***************************************************************************)
(* RADS-AT simulator: the BHT-412-MM sequential decision engine            *)
(* (src/rads/models/diagnosis.py) and the config loaders.                  *)
(*                                                                         *)
(* Units.  Amplitudes are integers in milli-ips (the simulator rounds to   *)
(* three decimals), phases are integer degrees, blade heights are integer  *)
(* millimetres (track_rel_mm), lengths of the config are integers in       *)
(* thousandths of an inch.  Comparisons the code makes on floats are made  *)
(* here on the exact rationals, cross-multiplied into integers.            *)
(***************************************************************************)
EXTENDS Integers, Sequences, FiniteSets, TLC

VARIABLES
    runs,       \* the RunSet handed to the engine: regime name -> record
    cfgFile,    \* content of config/bht412_mm.json
    ret,        \* return value of the last engine call
    pc,         \* SpecCfg: per caller, position inside a config load
    CFG,        \* SpecCfg: the module global _CFG of rads/menus/diags.py
    got,        \* SpecCfg: per caller, the object its last load returned
    parses,     \* SpecCfg: how many times the config source was parsed
    objs,       \* SpecCfg: how many config objects were created by parsing
    sim,        \* SpecUI: the RADSState of the session (st.session_state.sim)
    script      \* SpecUI: position of the session's script run in app.py

vars == <<runs, cfgFile, ret, pc, CFG, got, parses, objs, sim, script>>

-----------------------------------------------------------------------------
(* Arithmetic helpers                                                      *)

Abs(x) == IF x < 0 THEN -x ELSE x

Max(a, b) == IF a >= b THEN a ELSE b

\* floor(p / q) for q > 0 and any sign of p
FloorDiv(p, q) == p \div q

\* Python round(p / q), q # 0: nearest integer, ties to the even one
RoundDiv(p, q) ==
    LET n == IF q < 0 THEN -p ELSE p
        d == Abs(q)
        f == FloorDiv(n, d)
        r == n - f * d
    IN  IF 2 * r < d THEN f
        ELSE IF 2 * r > d THEN f + 1
        ELSE IF f % 2 = 0 THEN f ELSE f + 1

-----------------------------------------------------------------------------
(* Stage ids, in the order step_summaries_for_bht412 returns them          *)

StepIds == <<"track60", "ground100", "hover", "kias120", "letdown">>

StepLabel ==
    [track60   |-> "GND 60% NR  Track Mech",
     ground100 |-> "GND 100% NR  Mass Bal",
     hover     |-> "HOVER  Lateral Decision",
     kias120   |-> "120 KIAS  Vertical Smooth",
     letdown   |-> "LETDOWN  Final Trim"]

StepIdSet == {StepIds[i] : i \in 1..Len(StepIds)}

\* a stage id the engine does not know
UnknownStep == "bogus"

-----------------------------------------------------------------------------
(* config/bht412_mm.json.  The file is read by _load_cfg but is not part   *)
(* of the sources; its keys are the ones the code reads, its values follow *)
(* the specification (limit 0.15 ips, sensitivity 0.11 ips/100 g, pair     *)
(* separation 1.75 in) and the regime names of the simulator.  Lengths in  *)
(* 1/1000 in, amplitudes and sensitivities in 1/1000 ips.                  *)

\* a JSON object keeps its order: the blade table is a list of pairs
BladeAzimuth ==
    <<[blade |-> "RED", az |-> 0], [blade |-> "BLU", az |-> 90],
      [blade |-> "ORG", az |-> 180], [blade |-> "GRN", az |-> 270]>>

\* regime names as the simulator knows them (simulate.py, _simulate_412_bht)
StateMap ==
    [track60   |-> <<"60NR", "IDLE">>,
     ground100 |-> <<"100NR", "FPG">>,
     hover     |-> <<"HOVER">>,
     kias120   |-> <<"120K", "120KIAS">>,
     letdown   |-> <<"LETDOWN", "LDN", "DESCENT">>]

Bht412Cfg ==
    [track_pair_tol_in   |-> 100,
     sep_tol_in          |-> 100,
     pair_separation_in  |-> 1750,
     pitch_link_flat_in  |-> 50,
     ground_ips_limit    |-> 150,
     hover_ips_limit     |-> 200,
     kias120_vert_limit  |-> 120,
     letdown_ips_limit   |-> 100,
     hub_weight_sensitivity_ips_per_100g |-> 110,
     product_weights_per_ips             |-> 20,
     vertical_tab_ips_per_deg            |-> 100,
     blade_azimuth_deg   |-> BladeAzimuth,
     state_map           |-> StateMap]

-----------------------------------------------------------------------------
(* Measurement records: Python dicts, modelled as functions whose domain   *)
(* is the set of keys present.                                             *)

Track(red, blu, org, grn) ==
    [RED |-> red, BLU |-> blu, ORG |-> org, GRN |-> grn]

\* asdict(TestResult), restricted to the keys the engine reads
Rec(track, lat, latph, vert, vertph) ==
    [track_rel_mm      |-> track,
     lat_1r_ips        |-> lat,
     lat_1r_phase_deg  |-> latph,
     vert_1r_ips       |-> vert,
     vert_1r_phase_deg |-> vertph,
     vib_1r_ips        |-> lat,
     vib_1r_phase_deg  |-> latph]

\* the empty dict
EmptyRec == [k \in {} |-> 0]

GoodTrack == Track(22, 22, -22, -22)

\* in track, amplitudes below every limit
RecGood == Rec(GoodTrack, 50, 70, 50, 220)
\* RED/BLU pair out of tolerance (RED high)
RecRB == Rec(Track(26, 18, -22, -22), 50, 70, 50, 220)
\* ORG/GRN pair out of tolerance (GRN high)
RecOG == Rec(Track(22, 22, -26, -18), 50, 70, 50, 220)
\* pair separation out of tolerance, both pairs level
RecSep == Rec(Track(18, 18, -18, -18), 50, 70, 50, 220)
\* lateral amplitude on the ground limit / above every lateral limit
RecGndLim == Rec(GoodTrack, 150, 70, 50, 220)
RecGndHigh == Rec(GoodTrack, 220, 70, 50, 220)
\* hover: on the hover limit near the ground phase / high, far from it
RecHovLim == Rec(GoodTrack, 200, 80, 50, 220)
RecHovHigh == Rec(GoodTrack, 250, 170, 50, 220)
\* 120 KIAS: vertical on its limit / high
RecVertLim == Rec(GoodTrack, 50, 70, 120, 220)
RecVertHigh == Rec(GoodTrack, 50, 70, 300, 40)
\* letdown: on the letdown limit / high, opposite to the ground phase
RecLetLim == Rec(GoodTrack, 100, 30, 50, 220)
RecLetHigh == Rec(GoodTrack, 180, 250, 50, 220)

\* the records drawn for each regime name, the primary name of a stage first
RecordsFor ==
    [x \in {"60NR"}    |-> <<RecGood, EmptyRec, RecRB, RecOG, RecSep>>]
 @@ [x \in {"100NR"}   |-> <<RecGood, EmptyRec, RecGndLim, RecGndHigh>>]
 @@ [x \in {"HOVER"}   |-> <<RecGood, EmptyRec, RecHovLim, RecHovHigh>>]
 @@ [x \in {"120K"}    |-> <<RecGood, EmptyRec, RecVertLim, RecVertHigh>>]
 @@ [x \in {"LETDOWN"} |-> <<RecGood, EmptyRec, RecLetLim, RecLetHigh>>]
 @@ [x \in {"FPG"}     |-> <<RecGood, RecGndHigh>>]
 @@ [x \in {"IDLE"}    |-> <<RecRB>>]
 @@ [x \in {"120KIAS"} |-> <<RecGood, RecVertHigh>>]
 @@ [x \in {"LDN", "DESCENT"} |-> <<RecGood, RecLetHigh>>]

PrimaryNames == {"60NR", "100NR", "HOVER", "120K", "LETDOWN"}

AliasNames == <<"FPG", "IDLE", "120KIAS", "LDN", "DESCENT">>

\* how many of the alias names the RunSets use besides the primary names
MaxAliasNames == 1

\* the names that are keys of the RunSets
Names ==
    PrimaryNames \cup {AliasNames[i] : i \in 1..(IF MaxAliasNames < Len(AliasNames)
                                                 THEN MaxAliasNames
                                                 ELSE Len(AliasNames))}

\* dict.get(k, default)
Get(m, k, default) == IF k \in DOMAIN m THEN m[k] ELSE default

\* float(cfg[k]): the exception it raises, "" when it returns.  A JSON value
\* that float() rejects is recorded by its key in cfg.non_numeric.
KeyExc(cfg, k) ==
    IF k \notin DOMAIN cfg THEN "KeyError"
    ELSE IF k \in Get(cfg, "non_numeric", {}) THEN "ValueError"
    ELSE ""

RECURSIVE FirstExc(_, _, _)
\* the first exception of float(cfg[k]) over the keys in reading order
FirstExc(cfg, keys, i) ==
    IF i > Len(keys) THEN ""
    ELSE IF KeyExc(cfg, keys[i]) # "" THEN KeyExc(cfg, keys[i])
    ELSE FirstExc(cfg, keys, i + 1)

\* the exceptions a read of the config raises
ExcNames == {"KeyError", "ValueError"}

-----------------------------------------------------------------------------
(* Helpers of diagnosis.py                                                 *)

\* _load_cfg of diagnosis.py: json.load of the file, at every call
load_cfg == cfgFile

\* Optional[dict]: None is [found |-> FALSE]
NoneRec == [found |-> FALSE, rec |-> EmptyRec]

SomeRec(m) == [found |-> TRUE, rec |-> m]

RECURSIVE pick_last_from(_, _, _)
pick_last_from(rs, candidates, i) ==
    IF i < 1 THEN NoneRec
    ELSE IF candidates[i] \in DOMAIN rs THEN SomeRec(rs[candidates[i]])
    ELSE pick_last_from(rs, candidates, i - 1)

\* _pick_state walking the candidates from the last one
pick_last(rs, candidates) == pick_last_from(rs, candidates, Len(candidates))

RECURSIVE pick_from(_, _, _)
pick_from(rs, candidates, i) ==
    IF i > Len(candidates) THEN NoneRec
    ELSE IF candidates[i] \in DOMAIN rs THEN SomeRec(rs[candidates[i]])
    ELSE pick_from(rs, candidates, i + 1)

\* _pick_state: the record under the first candidate name that is a key
pick_state(rs, candidates) == pick_from(rs, candidates, 1)

\* Python truth value of `not m` for an Optional[dict]
Falsy(p) == ~p.found \/ DOMAIN p.rec = {}

\* float(track.get(k, 0)), the height in mm
HeightMm(m, k) == Get(Get(m, "track_rel_mm", EmptyRec), k, 0)

\* _track_checks.  h/25.4 <= tol/1000 is compared as h*10000 <= tol*254;
\* sep2 is twice the pair separation in mm, so sep/25.4 is sep2/50.8.
track_checks(m, cfg) ==
    LET red == HeightMm(m, "RED")
        blu == HeightMm(m, "BLU")
        org == HeightMm(m, "ORG")
        grn == HeightMm(m, "GRN")
        rb   == red - blu
        og   == org - grn
        sep2 == (red + blu) - (org + grn)
        rb_ok  == Abs(rb) * 10000 <= cfg.track_pair_tol_in * 254
        og_ok  == Abs(og) * 10000 <= cfg.track_pair_tol_in * 254
        sep_ok == Abs(sep2 * 10000 - cfg.pair_separation_in * 508)
                      <= cfg.sep_tol_in * 508
    IN  [ok |-> rb_ok /\ og_ok /\ sep_ok,
         rb_ok |-> rb_ok, og_ok |-> og_ok, sep_ok |-> sep_ok,
         h_mm |-> [RED |-> red, BLU |-> blu, ORG |-> org, GRN |-> grn],
         rb_mm |-> rb, og_mm |-> og, sep2_mm |-> sep2]

\* float(m.get("lat_1r_ips", m.get("vib_1r_ips", 0.0)) or 0.0); on a number
\* `x or 0.0` is x
LatAmp(m) == Get(m, "lat_1r_ips", Get(m, "vib_1r_ips", 0))

LatPhase(m) == Get(m, "lat_1r_phase_deg", Get(m, "vib_1r_phase_deg", 0))

\* float(m.get("vert_1r_ips", 0.0) or 0.0)
VertAmp(m) == Get(m, "vert_1r_ips", 0)

VertPhase(m) == Get(m, "vert_1r_phase_deg", 0)

-----------------------------------------------------------------------------
(* Status evaluation                                                       *)

\* the keys _track_checks reads, in order (lines 423-425)
TrackKeys == <<"track_pair_tol_in", "sep_tol_in", "pair_separation_in">>

\* A status function that raises returns the name of the exception; the
\* callers below turn it into the raised call.  Every status function reads
\* cfg["state_map"] first, track60 before the others.
status_track60(rs, cfg) ==
    IF "state_map" \notin DOMAIN cfg THEN "KeyError"
    ELSE
    LET m == pick_state(rs, cfg.state_map.track60)
    IN  IF Falsy(m) THEN "MISSING"
        ELSE IF FirstExc(cfg, TrackKeys, 1) # "" THEN FirstExc(cfg, TrackKeys, 1)
        ELSE IF track_checks(m.rec, cfg).ok THEN "DONE" ELSE "NEEDS"

\* _status_ground100 with an amplitude equal to the limit taken as DONE
status_ground100_lenient(rs, cfg, prev_ok) ==
    IF ~prev_ok THEN "LOCKED"
    ELSE LET m == pick_state(rs, cfg.state_map.ground100)
         IN  IF Falsy(m) THEN "MISSING"
             ELSE IF KeyExc(cfg, "ground_ips_limit") # ""
             THEN KeyExc(cfg, "ground_ips_limit")
             ELSE IF LatAmp(m.rec) <= cfg.ground_ips_limit THEN "DONE"
             ELSE "NEEDS"

status_ground100(rs, cfg, prev_ok) ==
    IF ~prev_ok THEN "LOCKED"
    ELSE LET m == pick_state(rs, cfg.state_map.ground100)
         IN  IF Falsy(m) THEN "MISSING"
             ELSE IF KeyExc(cfg, "ground_ips_limit") # ""
             THEN KeyExc(cfg, "ground_ips_limit")
             ELSE IF LatAmp(m.rec) < cfg.ground_ips_limit THEN "DONE"
             ELSE "NEEDS"

\* _status_hover without the prev_ok test
status_hover_ungated(rs, cfg, prev_ok) ==
    LET m == pick_state(rs, cfg.state_map.hover)
    IN  IF Falsy(m) THEN "MISSING"
        ELSE IF KeyExc(cfg, "hover_ips_limit") # ""
        THEN KeyExc(cfg, "hover_ips_limit")
        ELSE IF LatAmp(m.rec) < cfg.hover_ips_limit THEN "DONE"
        ELSE "NEEDS"

status_hover(rs, cfg, prev_ok) ==
    IF ~prev_ok THEN "LOCKED"
    ELSE LET m == pick_state(rs, cfg.state_map.hover)
         IN  IF Falsy(m) THEN "MISSING"
             ELSE IF KeyExc(cfg, "hover_ips_limit") # ""
             THEN KeyExc(cfg, "hover_ips_limit")
             ELSE IF LatAmp(m.rec) < cfg.hover_ips_limit THEN "DONE"
             ELSE "NEEDS"

\* _status_120k with the test of the record before the test of prev_ok
status_120k_missing_first(rs, cfg, prev_ok) ==
    LET m == pick_state(rs, cfg.state_map.kias120)
    IN  IF Falsy(m) THEN "MISSING"
        ELSE IF ~prev_ok THEN "LOCKED"
        ELSE IF KeyExc(cfg, "kias120_vert_limit") # ""
        THEN KeyExc(cfg, "kias120_vert_limit")
        ELSE IF VertAmp(m.rec) < cfg.kias120_vert_limit THEN "DONE"
        ELSE "NEEDS"

status_120k(rs, cfg, prev_ok) ==
    IF ~prev_ok THEN "LOCKED"
    ELSE LET m == pick_state(rs, cfg.state_map.kias120)
         IN  IF Falsy(m) THEN "MISSING"
             ELSE IF KeyExc(cfg, "kias120_vert_limit") # ""
             THEN KeyExc(cfg, "kias120_vert_limit")
             ELSE IF VertAmp(m.rec) < cfg.kias120_vert_limit THEN "DONE"
             ELSE "NEEDS"

\* _status_letdown without the prev_ok test
status_letdown_ungated(rs, cfg, prev_ok) ==
    LET m == pick_state(rs, cfg.state_map.letdown)
    IN  IF Falsy(m) THEN "MISSING"
        ELSE IF KeyExc(cfg, "letdown_ips_limit") # ""
        THEN KeyExc(cfg, "letdown_ips_limit")
        ELSE IF LatAmp(m.rec) < cfg.letdown_ips_limit THEN "DONE"
        ELSE "NEEDS"

status_letdown(rs, cfg, prev_ok) ==
    IF ~prev_ok THEN "LOCKED"
    ELSE LET m == pick_state(rs, cfg.state_map.letdown)
         IN  IF Falsy(m) THEN "MISSING"
             ELSE IF KeyExc(cfg, "letdown_ips_limit") # ""
             THEN KeyExc(cfg, "letdown_ips_limit")
             ELSE IF LatAmp(m.rec) < cfg.letdown_ips_limit THEN "DONE"
             ELSE "NEEDS"

StepSummary(id, st) == [step_id |-> id, label |-> StepLabel[id], status |-> st]

\* step_summaries_for_bht412: the list of five StepSummary.  When a status
\* function raised, the call raises and returns no list: summaries_exc.
step_summaries_for_bht412(rs) ==
    LET cfg == load_cfg
        s1 == status_track60(rs, cfg)
        s2 == status_ground100(rs, cfg, s1 = "DONE")
        s3 == status_hover(rs, cfg, s1 = "DONE" /\ s2 = "DONE")
        s4 == status_120k(rs, cfg, s1 = "DONE" /\ s2 = "DONE" /\ s3 = "DONE")
        s5 == status_letdown(rs, cfg, s1 = "DONE" /\ s2 = "DONE" /\ s3 = "DONE"
                                      /\ s4 = "DONE")
    IN  <<StepSummary("track60", s1),
          StepSummary("ground100", s2),
          StepSummary("hover", s3),
          StepSummary("kias120", s4),
          StepSummary("letdown", s5)>>

\* the exception a status function raised while the list s was built, ""
\* when step_summaries_for_bht412 returned s
summaries_exc(s) ==
    IF \E i \in 1..Len(s) : s[i].status \in ExcNames
    THEN s[CHOOSE i \in 1..Len(s) : s[i].status \in ExcNames].status
    ELSE ""

-----------------------------------------------------------------------------
(* Text: Python strings are TLA+ strings; the f-string conversions are     *)
(* computed from the scaled integers.                                      *)

\* one character each, as in the Python source: U+00B0 and U+0394
DegSign == "^"

Delta == "D"

Pad2(n) == IF n < 10 THEN "0" \o ToString(n) ELSE ToString(n)

Pad3(n) == IF n < 10 THEN "00" \o ToString(n)
           ELSE IF n < 100 THEN "0" \o ToString(n) ELSE ToString(n)

\* f"{x:.3f}" of x = milli/1000
Fmt3(milli) ==
    (IF milli < 0 THEN "-" ELSE "")
        \o ToString(Abs(milli) \div 1000) \o "." \o Pad3(Abs(milli) % 1000)

\* f"{x:.2f}" of x = p/q, q > 0
Fmt2(p, q) ==
    LET h == RoundDiv(Abs(p) * 100, q)
    IN  (IF p < 0 THEN "-" ELSE "")
            \o ToString(h \div 100) \o "." \o Pad2(h % 100)

\* f"{x:.1f}" of x = p/q, q > 0
Fmt1(p, q) ==
    LET t == RoundDiv(Abs(p) * 10, q)
    IN  (IF p < 0 THEN "-" ELSE "")
            \o ToString(t \div 10) \o "." \o ToString(t % 10)

WrapWidth == 38

RECURSIVE wrap_one(_, _)
wrap_one(s, width) ==
    IF Len(s) > width
    THEN <<SubSeq(s, 1, width)>> \o wrap_one(SubSeq(s, width + 1, Len(s)), width)
    ELSE <<s>>

RECURSIVE wrap_from(_, _, _)
wrap_from(lines, i, width) ==
    IF i > Len(lines) THEN <<>>
    ELSE wrap_one(lines[i], width) \o wrap_from(lines, i + 1, width)

\* every line cut at the width, the rest dropped
wrap_cut(lines) ==
    [i \in 1..Len(lines) |->
        SubSeq(lines[i], 1, IF Len(lines[i]) > WrapWidth THEN WrapWidth ELSE Len(lines[i]))]

\* _wrap(lines, width=38)
wrap(lines) == wrap_from(lines, 1, WrapWidth)

-----------------------------------------------------------------------------
(* Angle and vector utilities                                              *)

\* _round_to(x, step) for x = p/q and an integer step > 0, in units of 1
round_to(p, q, step) == RoundDiv(p, q * step) * step

\* the difference without the fold of arcs above 180 degrees
ang_diff_deg_unfolded(a, b) == (a - b) % 360

\* _ang_diff_deg
ang_diff_deg(a, b) ==
    LET d == (a - b) % 360
    IN  IF d > 180 THEN 360 - d ELSE d

\* round(hours * 2.0) of _deg_to_clock: the number of half hours
ClockHalves(deg) == RoundDiv(deg % 360, 15)

\* the hour without the change of 0 to 12
ClockHour_raw(deg) == (ClockHalves(deg) \div 2) % 12

\* the hour shown by _deg_to_clock
ClockHour(deg) ==
    LET h == (ClockHalves(deg) \div 2) % 12
    IN  IF h = 0 THEN 12 ELSE h

\* _deg_to_clock
deg_to_clock(deg) ==
    ToString(ClockHour(deg))
        \o (IF ClockHalves(deg) % 2 = 0 THEN ":00" ELSE ":30")

\* the hint chosen by the hour nearest to the label, 1:30 counting as 2
hub_split_hint_nearest(corr_deg) ==
    LET h == ((ClockHalves(corr_deg) + 1) \div 2) % 12
    IN  IF h \in {11, 0, 1} THEN "Split nearest: GRN/ORG"
        ELSE IF h \in {2, 3, 4} THEN "Split nearest: RED/BLU"
        ELSE IF h \in {5, 6, 7} THEN "Split nearest: BLU/ORG"
        ELSE "Split nearest: GRN/RED"

\* _hub_split_hint
hub_split_hint(corr_deg) ==
    LET h == ClockHour(corr_deg)
    IN  IF h \in {11, 12, 1} THEN "Split nearest: GRN/ORG"
        ELSE IF h \in {2, 3, 4} THEN "Split nearest: RED/BLU"
        ELSE IF h \in {5, 6, 7} THEN "Split nearest: BLU/ORG"
        ELSE "Split nearest: GRN/RED"

RECURSIVE nearest_from(_, _, _, _, _)
nearest_from(phase_deg, blade_az, i, best, best_d) ==
    IF i > Len(blade_az) THEN best
    ELSE LET d == ang_diff_deg(phase_deg, blade_az[i].az)
         IN  IF d < best_d
             THEN nearest_from(phase_deg, blade_az, i + 1, blade_az[i].blade, d)
             ELSE nearest_from(phase_deg, blade_az, i + 1, best, best_d)

\* _nearest_blade: the first blade, in table order, at the smallest distance
nearest_blade(phase_deg, blade_az) ==
    IF Len(blade_az) = 0 THEN "(BLADE)"
    ELSE nearest_from(phase_deg, blade_az, 1, "(BLADE)", 1000000000)

\* 100000 * cos of 0, 10, ..., 90 degrees
CosTable == <<100000, 98481, 93969, 86603, 76604, 64279, 50000, 34202, 17365, 0>>

\* 100000 * math.cos(math.radians(deg)), deg a multiple of 10
CosE5(deg) ==
    LET d == deg % 360
    IN  IF d <= 90 THEN CosTable[(d \div 10) + 1]
        ELSE IF d <= 180 THEN -CosTable[((180 - d) \div 10) + 1]
        ELSE IF d <= 270 THEN -CosTable[((d - 180) \div 10) + 1]
        ELSE CosTable[((360 - d) \div 10) + 1]

SinE5(deg) == CosE5(deg - 90)

\* _vec scaled by k/2: the complex number, components in 1/100000 ips
\* (TLC integers are 32 bits wide: magnitudes stay below 0.46 ips)
vec(amp, ph_deg, k) ==
    [re |-> RoundDiv(amp * CosE5(ph_deg) * k, 2000),
     im |-> RoundDiv(amp * SinE5(ph_deg) * k, 2000)]

VecAdd(u, v) == [re |-> u.re + v.re, im |-> u.im + v.im]

RECURSIVE isqrt_in(_, _, _)
isqrt_in(x, lo, hi) ==
    IF lo >= hi THEN lo
    ELSE LET mid == (lo + hi + 1) \div 2
         IN  IF mid * mid <= x THEN isqrt_in(x, mid, hi)
             ELSE isqrt_in(x, lo, mid - 1)

\* squared magnitude, in (1/100000 ips)^2
VecAbs2(u) == u.re * u.re + u.im * u.im

\* abs() of the complex number, rounded to 1/1000 ips as f"{x:.3f}" prints it
VecAbsMilli(u) == (isqrt_in(VecAbs2(u), 0, 46340) + 50) \div 100

-----------------------------------------------------------------------------
(* Step details.  A detail is the returned (title, lines), or the          *)
(* exception the call raised.                                              *)

Detail(title, lines) == [title |-> title, lines |-> lines, exc |-> ""]

Raised(e) == [title |-> "", lines |-> <<>>, exc |-> e]

\* no (title, lines) was returned
NoDetail == Detail("", <<>>)

StatusLine(ok) == "Status: " \o (IF ok THEN "DONE" ELSE "NEEDS")

\* f"{ph:.1f}" of a phase in whole degrees
FmtDeg(ph) == Fmt1(ph, 1)

\* max(1, int(round(num / den))) flats, den > 0
Flats(num, den) == Max(1, RoundDiv(num, den))

\* the RED/BLU pitch-link line naming the higher blade
track_pair_rb_higher(info, cfg) ==
    IF Abs(info.rb_mm) * 10000 > cfg.track_pair_tol_in * 254
    THEN LET flats == Flats(Abs(info.rb_mm) * 10000, 254 * cfg.pitch_link_flat_in)
         IN  IF info.rb_mm > 0
             THEN <<"Lengthen RED pitch link: +" \o ToString(flats) \o " flats">>
             ELSE <<"Lengthen BLU pitch link: +" \o ToString(flats) \o " flats">>
    ELSE <<>>

\* lines 174-183: the RED/BLU pitch-link line
track_pair_rb(info, cfg) ==
    IF Abs(info.rb_mm) * 10000 > cfg.track_pair_tol_in * 254
    THEN LET flats == Flats(Abs(info.rb_mm) * 10000, 254 * cfg.pitch_link_flat_in)
         IN  IF info.rb_mm > 0
             THEN <<"Lengthen BLU pitch link: +" \o ToString(flats) \o " flats">>
             ELSE <<"Lengthen RED pitch link: +" \o ToString(flats) \o " flats">>
    ELSE <<>>

\* lines 185-194: the ORG/GRN pitch-link line
track_pair_og(info, cfg) ==
    IF Abs(info.og_mm) * 10000 > cfg.track_pair_tol_in * 254
    THEN LET flats == Flats(Abs(info.og_mm) * 10000, 254 * cfg.pitch_link_flat_in)
         IN  IF info.og_mm > 0
             THEN <<"Lengthen GRN pitch link: +" \o ToString(flats) \o " flats">>
             ELSE <<"Lengthen ORG pitch link: +" \o ToString(flats) \o " flats">>
    ELSE <<>>

\* the pair-separation line with twice the tolerance before it is emitted
track_pair_sep_wide(info, cfg) ==
    LET delta == cfg.pair_separation_in * 508 - info.sep2_mm * 10000
    IN  IF Abs(delta) > 2 * cfg.sep_tol_in * 508
        THEN LET flats == Flats(Abs(delta), 508 * cfg.pitch_link_flat_in)
             IN  IF delta > 0
                 THEN <<"Move ORG/GRN pair DOWN: shorten both "
                            \o ToString(flats) \o " flats">>
                 ELSE <<"Move ORG/GRN pair UP: lengthen both "
                            \o ToString(flats) \o " flats">>
        ELSE <<>>

\* lines 196-203: the pair-separation line; delta = target_sep - sep_in
track_pair_sep(info, cfg) ==
    LET delta == cfg.pair_separation_in * 508 - info.sep2_mm * 10000
    IN  IF Abs(delta) > cfg.sep_tol_in * 508
        THEN LET flats == Flats(Abs(delta), 508 * cfg.pitch_link_flat_in)
             IN  IF delta > 0
                 THEN <<"Move ORG/GRN pair DOWN: shorten both "
                            \o ToString(flats) \o " flats">>
                 ELSE <<"Move ORG/GRN pair UP: lengthen both "
                            \o ToString(flats) \o " flats">>
        ELSE <<>>

detail_track60(rs, cfg) ==
    LET m == pick_state(rs, cfg.state_map.track60)
    IN  IF Falsy(m) THEN Detail("60% NR (Track)", <<"No 60% NR track measurement.">>)
        ELSE
        LET info == track_checks(m.rec, cfg)
            title == "60% NR - Track Mechanical"
            head == <<StatusLine(info.ok),
                      "Pair sep: " \o Fmt2(info.sep2_mm * 10, 508) \o " in (target "
                          \o Fmt2(cfg.pair_separation_in, 1000) \o ")",
                      "RB diff : " \o Fmt2(info.rb_mm * 10, 254) \o " in",
                      "OG diff : " \o Fmt2(info.og_mm * 10, 254) \o " in">>
        IN  IF info.ok
            THEN Detail(title, wrap(head \o <<"No correction required.">>))
            ELSE IF KeyExc(cfg, "pitch_link_flat_in") # ""
            THEN Raised(KeyExc(cfg, "pitch_link_flat_in"))
            ELSE IF cfg.pitch_link_flat_in = 0 THEN Raised("ZeroDivisionError")
            ELSE Detail(title,
                        wrap(head \o track_pair_rb(info, cfg)
                                  \o track_pair_og(info, cfg)
                                  \o track_pair_sep(info, cfg)
                                  \o <<"Re-measure 60NR to validate.">>))

\* f"LAT 1R: {amp:.3f} ips @ {ph:.1f}deg"
VibLine(tag, amp, ph) ==
    tag \o " 1R: " \o Fmt3(amp) \o " ips @ " \o FmtDeg(ph) \o DegSign

LimitLine(limit) == "Limit : < " \o Fmt2(limit, 1000) \o " ips"

\* the hub weight without the rounding to 10 g
HubGrams_unrounded(amp, ips_per_100g) == RoundDiv(amp * 100, ips_per_100g)

\* _round_to((amp / ips_per_100g) * 100.0, 10), ips_per_100g # 0
HubGrams(amp, ips_per_100g) == round_to(amp * 100, ips_per_100g, 10)

CorrDeg(ph) == (ph + 180) % 360

detail_ground100(rs, cfg) ==
    LET m == pick_state(rs, cfg.state_map.ground100)
    IN  IF Falsy(m)
        THEN Detail("100% NR (Ground Bal)", <<"No 100% NR ground measurement.">>)
        ELSE
        LET amp == LatAmp(m.rec)
            ph == LatPhase(m.rec)
            limit == cfg.ground_ips_limit
            ok == amp < limit
            title == "100% NR - Ground Mass Balance"
            head == <<StatusLine(ok), VibLine("LAT", amp, ph), LimitLine(limit)>>
            ips_per_100g == cfg.hub_weight_sensitivity_ips_per_100g
            corr_deg == CorrDeg(ph)
        IN  IF ok
            THEN Detail(title, wrap(head \o <<"No correction required.">>))
            ELSE IF KeyExc(cfg, "hub_weight_sensitivity_ips_per_100g") # ""
            THEN Raised(KeyExc(cfg, "hub_weight_sensitivity_ips_per_100g"))
            ELSE IF ips_per_100g = 0 THEN Raised("ZeroDivisionError")
            ELSE Detail(title,
                   wrap(head \o
                     <<"Add HUB weight: ~" \o ToString(HubGrams(amp, ips_per_100g)) \o " g",
                       "Place @ " \o deg_to_clock(corr_deg) \o " (180" \o DegSign
                           \o " from peak)",
                       hub_split_hint(corr_deg),
                       "Re-measure 100NR to validate.">>))

\* the decision block with MASS chosen below 30 degrees only
hover_decision_strict(amp_h, ph_h, d, cfg) ==
    LET corr_deg == CorrDeg(ph_h)
        ips_per_100g == cfg.hub_weight_sensitivity_ips_per_100g
    IN  IF d < 30
        THEN <<"Decision: MASS (Hub) - keep ground bal",
               "Add HUB weight: ~" \o ToString(HubGrams(amp_h, ips_per_100g)) \o " g",
               "Place @ " \o deg_to_clock(corr_deg),
               hub_split_hint(corr_deg)>>
        ELSE <<"Decision: AERO (Blade) - product bal",
               "Add TIP weights: ~"
                   \o ToString(Max(1, RoundDiv(amp_h * cfg.product_weights_per_ips, 1000)))
                   \o " units",
               "Place @ " \o deg_to_clock(corr_deg),
               "NOTE: tip weights are ~11x hub effect",
               "      and will affect ground balance">>

\* lines 273-292 of _detail_hover: the decision block for angle difference d
hover_decision(amp_h, ph_h, d, cfg) ==
    LET corr_deg == CorrDeg(ph_h)
        ips_per_100g == cfg.hub_weight_sensitivity_ips_per_100g
    IN  IF d <= 30
        THEN <<"Decision: MASS (Hub) - keep ground bal",
               "Add HUB weight: ~" \o ToString(HubGrams(amp_h, ips_per_100g)) \o " g",
               "Place @ " \o deg_to_clock(corr_deg),
               hub_split_hint(corr_deg)>>
        ELSE <<"Decision: AERO (Blade) - product bal",
               "Add TIP weights: ~"
                   \o ToString(Max(1, RoundDiv(amp_h * cfg.product_weights_per_ips, 1000)))
                   \o " units",
               "Place @ " \o deg_to_clock(corr_deg),
               "NOTE: tip weights are ~11x hub effect",
               "      and will affect ground balance">>

detail_hover(rs, cfg) ==
    LET hover == pick_state(rs, cfg.state_map.hover)
        gnd == pick_state(rs, cfg.state_map.ground100)
    IN  IF Falsy(hover) THEN Detail("Hover (Decision)", <<"No hover measurement.">>)
        ELSE
        LET amp_h == LatAmp(hover.rec)
            ph_h == LatPhase(hover.rec)
            limit == cfg.hover_ips_limit
            ok == amp_h < limit
            title == "Hover - Product Balance vs Roll"
            head == <<StatusLine(ok), VibLine("LAT", amp_h, ph_h), LimitLine(limit)>>
            d == IF Falsy(gnd) THEN 999 ELSE ang_diff_deg(ph_h, LatPhase(gnd.rec))
            ref == IF Falsy(gnd) THEN "No Ground reference available"
                   ELSE "Angle vs Ground: " \o Delta \o "=" \o ToString(d) \o DegSign
        IN  IF ok
            THEN Detail(title, wrap(head \o <<"No correction required.">>))
            ELSE IF d <= 30 /\ KeyExc(cfg, "hub_weight_sensitivity_ips_per_100g") # ""
            THEN Raised(KeyExc(cfg, "hub_weight_sensitivity_ips_per_100g"))
            ELSE IF d > 30 /\ KeyExc(cfg, "product_weights_per_ips") # ""
            THEN Raised(KeyExc(cfg, "product_weights_per_ips"))
            ELSE IF d <= 30 /\ cfg.hub_weight_sensitivity_ips_per_100g = 0
            THEN Raised("ZeroDivisionError")
            ELSE Detail(title,
                   wrap(head \o <<ref>> \o hover_decision(amp_h, ph_h, d, cfg)
                             \o <<"Re-measure HOVER to validate.">>))

\* the tab amount without the floor of 0.2 degrees
TabTenths_nofloor(amp, ips_per_deg) ==
    IF ips_per_deg > 0 THEN RoundDiv(amp * 10, ips_per_deg) ELSE 0

\* max(0.2, _round_to(deg, 0.1)) in tenths of a degree
TabTenths(amp, ips_per_deg) ==
    Max(2, IF ips_per_deg > 0 THEN RoundDiv(amp * 10, ips_per_deg) ELSE 0)

\* _detail_120k with an amplitude equal to the limit shown as DONE
detail_120k_lenient(rs, cfg, option_120k) ==
    LET m == pick_state(rs, cfg.state_map.kias120)
    IN  IF Falsy(m) THEN Detail("120 KIAS (Vert)", <<"No 120 KIAS measurement.">>)
        ELSE
        LET amp == VertAmp(m.rec)
            ph == VertPhase(m.rec)
            limit == cfg.kias120_vert_limit
            ok == amp <= limit
            title == "120 KIAS - Vertical Smoother"
            head == <<StatusLine(ok), VibLine("VRT", amp, ph), LimitLine(limit)>>
            deg == TabTenths(amp, cfg.vertical_tab_ips_per_deg)
            blade_az == Get(cfg, "blade_azimuth_deg", <<>>)
            blade == nearest_blade(ph, blade_az)
            opp_blade == nearest_blade(CorrDeg(ph), blade_az)
        IN  IF ok
            THEN Detail(title, wrap(head \o <<"No correction required.">>))
            ELSE IF KeyExc(cfg, "vertical_tab_ips_per_deg") # ""
            THEN Raised(KeyExc(cfg, "vertical_tab_ips_per_deg"))
            ELSE Detail(title,
                   wrap(head \o
                     (IF option_120k = 1
                      THEN <<"Option 1 selected",
                             "Bend OUTBD TAB of " \o blade \o " UP",
                             "Amount: " \o Fmt1(deg, 10) \o DegSign>>
                      ELSE <<"Option 2 selected",
                             "Bend OUTBD TAB of " \o opp_blade \o " DOWN",
                             "Amount: " \o Fmt1(deg, 10) \o DegSign>>)
                     \o <<"Re-measure 120K to validate.">>))

\* _detail_120k
detail_120k(rs, cfg, option_120k) ==
    LET m == pick_state(rs, cfg.state_map.kias120)
    IN  IF Falsy(m) THEN Detail("120 KIAS (Vert)", <<"No 120 KIAS measurement.">>)
        ELSE
        LET amp == VertAmp(m.rec)
            ph == VertPhase(m.rec)
            limit == cfg.kias120_vert_limit
            ok == amp < limit
            title == "120 KIAS - Vertical Smoother"
            head == <<StatusLine(ok), VibLine("VRT", amp, ph), LimitLine(limit)>>
            deg == TabTenths(amp, cfg.vertical_tab_ips_per_deg)
            blade_az == Get(cfg, "blade_azimuth_deg", <<>>)
            blade == nearest_blade(ph, blade_az)
            opp_blade == nearest_blade(CorrDeg(ph), blade_az)
        IN  IF ok
            THEN Detail(title, wrap(head \o <<"No correction required.">>))
            ELSE IF KeyExc(cfg, "vertical_tab_ips_per_deg") # ""
            THEN Raised(KeyExc(cfg, "vertical_tab_ips_per_deg"))
            ELSE Detail(title,
                   wrap(head \o
                     (IF option_120k = 1
                      THEN <<"Option 1 selected",
                             "Bend OUTBD TAB of " \o blade \o " UP",
                             "Amount: " \o Fmt1(deg, 10) \o DegSign>>
                      ELSE <<"Option 2 selected",
                             "Bend OUTBD TAB of " \o opp_blade \o " DOWN",
                             "Amount: " \o Fmt1(deg, 10) \o DegSign>>)
                     \o <<"Re-measure 120K to validate.">>))

\* the check against the ground record that never offers the compromise
letdown_safety_never(amp, ph, gnd, grams_full, cfg) ==
    IF Falsy(gnd) THEN <<>>
    ELSE
    LET g_new == VecAdd(vec(LatAmp(gnd.rec), LatPhase(gnd.rec), 2),
                        vec(amp, CorrDeg(ph), 2))
    IN  <<"Check 100NR: predicted " \o Fmt3(VecAbsMilli(g_new)) \o " ips",
          "Ground limit: " \o Fmt2(cfg.ground_ips_limit, 1000) \o " ips">>

\* lines 372-392 of _detail_letdown: the check against the ground record
letdown_safety(amp, ph, gnd, grams_full, cfg) ==
    IF Falsy(gnd) THEN <<>>
    ELSE
    LET corr_deg == CorrDeg(ph)
        vg == vec(LatAmp(gnd.rec), LatPhase(gnd.rec), 2)
        c_full == vec(amp, corr_deg, 2)
        c_half == vec(amp, corr_deg, 1)
        g_new == VecAdd(vg, c_full)
        lim == cfg.ground_ips_limit * 100
    IN  <<"Check 100NR: predicted " \o Fmt3(VecAbsMilli(g_new)) \o " ips",
          "Ground limit: " \o Fmt2(cfg.ground_ips_limit, 1000) \o " ips">>
        \o (IF VecAbs2(g_new) > lim * lim
            THEN <<"Safety compromise triggered",
                   "Use 50%: ~" \o ToString(round_to(grams_full, 2, 10)) \o " g",
                   "Pred 100NR: " \o Fmt3(VecAbsMilli(VecAdd(vg, c_half))) \o " ips",
                   "Pred LET:  "
                       \o Fmt3(VecAbsMilli(VecAdd(vec(amp, ph, 2), c_half))) \o " ips">>
            ELSE <<>>)

detail_letdown(rs, cfg) ==
    LET m == pick_state(rs, cfg.state_map.letdown)
        gnd == pick_state(rs, cfg.state_map.ground100)
    IN  IF Falsy(m) THEN Detail("Letdown (Trim)", <<"No letdown measurement.">>)
        ELSE
        LET amp == LatAmp(m.rec)
            ph == LatPhase(m.rec)
            limit == cfg.letdown_ips_limit
            ok == amp < limit
            title == "Letdown - Final Trim"
            head == <<StatusLine(ok), VibLine("LAT", amp, ph), LimitLine(limit)>>
            ips_per_100g == cfg.hub_weight_sensitivity_ips_per_100g
            corr_deg == CorrDeg(ph)
        IN  IF ok
            THEN Detail(title, wrap(head \o <<"No correction required.">>))
            ELSE IF KeyExc(cfg, "hub_weight_sensitivity_ips_per_100g") # ""
            THEN Raised(KeyExc(cfg, "hub_weight_sensitivity_ips_per_100g"))
            ELSE IF ips_per_100g = 0 THEN Raised("ZeroDivisionError")
            ELSE LET grams_full == HubGrams(amp, ips_per_100g)
                 IN  Detail(title,
                       wrap(head \o
                         <<"Suggested HUB weight: ~" \o ToString(grams_full) \o " g",
                           "Place @ " \o deg_to_clock(corr_deg),
                           hub_split_hint(corr_deg)>>
                         \o letdown_safety(amp, ph, gnd, grams_full, cfg)
                         \o <<"Re-measure LETDOWN to validate.">>))

-----------------------------------------------------------------------------
(* Public entry points                                                     *)

\* {s.step_id: s.status for s in summaries}.get(step_id, "MISSING")
StatusOf(summaries, step_id) ==
    IF \E i \in 1..Len(summaries) : summaries[i].step_id = step_id
    THEN LET i == CHOOSE j \in 1..Len(summaries) : summaries[j].step_id = step_id
         IN  summaries[i].status
    ELSE "MISSING"

\* the title of a LOCKED or MISSING step, "DIAGS" for an id not in the table
GateTitle(step_id) ==
    IF step_id = "track60" THEN "60% NR (Track)"
    ELSE IF step_id = "ground100" THEN "100% NR (Ground Bal)"
    ELSE IF step_id = "hover" THEN "Hover (Decision)"
    ELSE IF step_id = "kias120" THEN "120 KIAS (Vert)"
    ELSE IF step_id = "letdown" THEN "Letdown (Trim)"
    ELSE "DIAGS"

MissingLines == <<"No measurement for this step.", "Go to MEASURE and run the regime.">>

LockedLines == <<"LOCKED: complete previous steps", "and re-measure until they are DONE.">>

UnknownLines == <<"Unknown step">>

\* lines 58-90 with the gate testing LOCKED only
detail_locked_only(rs, cfg, step_id, option_120k, summaries) ==
    IF summaries_exc(summaries) # "" THEN Raised(summaries_exc(summaries))
    ELSE IF StatusOf(summaries, step_id) = "LOCKED"
    THEN Detail(GateTitle(step_id), wrap(LockedLines))
    ELSE IF step_id = "track60" THEN detail_track60(rs, cfg)
    ELSE IF step_id = "ground100" THEN detail_ground100(rs, cfg)
    ELSE IF step_id = "hover" THEN detail_hover(rs, cfg)
    ELSE IF step_id = "kias120" THEN detail_120k(rs, cfg, option_120k)
    ELSE IF step_id = "letdown" THEN detail_letdown(rs, cfg)
    ELSE Detail("DIAGS", UnknownLines)

\* lines 58-90 of step_detail_for_bht412: the gate on the status of the
\* step in the summaries, then the _detail_* function of the step
detail_gated(rs, cfg, step_id, option_120k, summaries) ==
    IF summaries_exc(summaries) # "" THEN Raised(summaries_exc(summaries))
    ELSE IF StatusOf(summaries, step_id) \in {"LOCKED", "MISSING"}
    THEN Detail(GateTitle(step_id),
                wrap(IF StatusOf(summaries, step_id) = "MISSING"
                     THEN MissingLines ELSE LockedLines))
    ELSE IF step_id = "track60" THEN detail_track60(rs, cfg)
    ELSE IF step_id = "ground100" THEN detail_ground100(rs, cfg)
    ELSE IF step_id = "hover" THEN detail_hover(rs, cfg)
    ELSE IF step_id = "kias120" THEN detail_120k(rs, cfg, option_120k)
    ELSE IF step_id = "letdown" THEN detail_letdown(rs, cfg)
    ELSE Detail("DIAGS", UnknownLines)

\* step_detail_for_bht412 with the gate testing LOCKED only
step_detail_locked_only(rs, step_id, option_120k) ==
    detail_locked_only(rs, load_cfg, step_id, option_120k,
                       step_summaries_for_bht412(rs))

\* step_detail_for_bht412: the (title, lines) it returns, or the exception
\* step_summaries_for_bht412 or the _detail_* function raised
step_detail_for_bht412(rs, step_id, option_120k) ==
    detail_gated(rs, load_cfg, step_id, option_120k,
                 step_summaries_for_bht412(rs))

RECURSIVE first_needs(_, _)
\* the loop of diagnose_from_result looking for NEEDS instead of not DONE
first_needs(summaries, i) ==
    IF i > Len(summaries) THEN "complete"
    ELSE IF summaries[i].status = "NEEDS" THEN summaries[i].step_id
    ELSE first_needs(summaries, i + 1)

RECURSIVE first_not_done(_, _)
first_not_done(summaries, i) ==
    IF i > Len(summaries) THEN "complete"
    ELSE IF summaries[i].status # "DONE" THEN summaries[i].step_id
    ELSE first_not_done(summaries, i + 1)

CompleteLines == <<"All steps DONE.", "Rotor within training limits.">>

\* the detail for next_step with option 2 always showing the kias120 stage
diagnose_detail_jump(rs, option_120k, next_step) ==
    IF next_step = "complete"
    THEN Detail("DIAGS", wrap(CompleteLines))
    ELSE step_detail_for_bht412(rs, IF option_120k = 2 THEN "kias120" ELSE next_step,
                                option_120k)

\* lines 537-543 of diagnose_from_result: the detail for next_step
diagnose_detail(rs, option_120k, next_step) ==
    IF next_step = "complete"
    THEN Detail("DIAGS", wrap(CompleteLines))
    ELSE step_detail_for_bht412(rs, next_step, option_120k)

\* lines 545-549: the returned dict, or in exc the exception raised
diagnose_return(summaries, next_step, detail) ==
    IF summaries_exc(summaries) # ""
    THEN [summaries |-> <<>>, next_step |-> "", detail |-> NoDetail,
          exc |-> summaries_exc(summaries)]
    ELSE IF detail.exc # ""
    THEN [summaries |-> <<>>, next_step |-> "", detail |-> NoDetail,
          exc |-> detail.exc]
    ELSE [summaries |-> summaries, next_step |-> next_step,
          detail |-> detail, exc |-> ""]

\* lines 530-549 with next_step the last step that is not DONE
diagnose_next_last(rs, option_120k, summaries) ==
    LET open == {i \in 1..Len(summaries) : summaries[i].status # "DONE"}
        next_step == IF open = {} THEN "complete"
                     ELSE summaries[CHOOSE i \in open : \A j \in open : j <= i].step_id
    IN  diagnose_return(summaries, next_step,
                        diagnose_detail(rs, option_120k, next_step))

\* lines 530-549 for the summaries list of line 528
diagnose_next(rs, option_120k, summaries) ==
    diagnose_return(summaries, first_not_done(summaries, 1),
                    diagnose_detail(rs, option_120k, first_not_done(summaries, 1)))

\* diagnose_from_result
diagnose_from_result(rs, option_120k) ==
    diagnose_next(rs, option_120k, step_summaries_for_bht412(rs))

-----------------------------------------------------------------------------
(* The engine as a state machine: a RunSet and calls of the entry points   *)

Options == {1, 2}

\* the stage ids callers pass: the five known ones and an unknown one
CallIds == StepIdSet \cup {UnknownStep}

\* a choice per name: 0 for an absent key, i for the i-th record of the name
Choices == {c \in [Names -> 0..5] : \A n \in Names : c[n] <= Len(RecordsFor[n])}

RunSetOf(c) == [n \in {m \in Names : c[m] > 0} |-> RecordsFor[n][c[n]]]

\* every RunSet over the names, each name holding one of its records
RunSets == {RunSetOf(c) : c \in Choices}

\* how many times in a row a caller repeats diagnose_from_result
MaxRepeat == 2

\* no call has returned yet; calls counts the consecutive identical calls
NoRet ==
    [op |-> "none", step_id |-> "", option |-> 0, calls |-> 0,
     summaries |-> <<>>, next_step |-> "", detail |-> NoDetail, exc |-> ""]

-----------------------------------------------------------------------------
(* The device session (src/rads/core.py).  A string the user types (a tail  *)
(* number, a flight id, the input buffer) is the sequence of its characters,*)
(* so "" is <<>> and "?" is <<"?">>; a dict is a function on its keys.      *)
(* Of RADSState the fields that a handler, a render function or the         *)
(* acquisition reads are kept.  lamp, contrast, last_message,               *)
(* aircraft_version, display_mode, display_view, display_page, diags_page,  *)
(* diag_title, diag_lines, pending_tacho_rpm and last_completed_state are   *)
(* written and shown but decide nothing; screens is fixed by register_all.  *)

\* register_all: the ids of the screens the four menus register
Screens ==
    {"measure", "measure_select_aircraft", "measure_select_tail",
     "measure_entry_tail", "measure_select_plan", "measure_entry_flightid",
     "measure_select_test", "measure_test_status", "measure_measuring",
     "measure_acq_done", "measure_setup_412",
     "display", "display_test_states", "display_displays",
     "display_complete_flight", "display_plot_track", "display_plot_polar",
     "display_table",
     "diags", "diags_all_limits", "diags_warnings", "diags_menu",
     "diags_corrections", "diags_predictions", "diags_adjustables",
     "diags_defaults",
     "manager", "manager_status", "manager_reset"}

\* RADSState(): the dataclass defaults; hung is not a field, it records that
\* a dispatch entered a loop it cannot leave
RADSState ==
    [powered |-> TRUE,
     stack |-> <<"measure">>,
     aircraft_type |-> "412_50",
     tail_number |-> <<>>,
     flight_plan |-> "INITIAL",
     flight_id |-> <<"?">>,
     menu_index |-> 0,
     input_buffer |-> <<>>,
     measurements |-> EmptyRec,
     acq_counts |-> EmptyRec,
     active_test_state |-> "",
     pending_acq |-> FALSE,
     pending_test_state |-> "",
     display_state |-> "",
     tail_numbers_by_type |-> [t \in {"412_41", "412_50"} |-> <<>>],
     hung |-> FALSE]

\* app.py: the session starts with sim = _init_sim() and its first script run
InitSim ==
    /\ sim = RADSState
    /\ script = "run"

Callers == 1..2

InitEngine ==
    /\ runs \in RunSets
    /\ cfgFile = Bht412Cfg
    /\ ret = NoRet

\* no config object exists yet: object ids start at 1, 0 is None
InitCfg ==
    /\ pc = [t \in Callers |-> "idle"]
    /\ CFG = 0
    /\ got = [t \in Callers |-> 0]
    /\ parses = 0
    /\ objs = 0

Init == InitEngine /\ InitCfg /\ InitSim

cfgVars == <<pc, CFG, got, parses, objs>>

\* what a caller holds after step_summaries_for_bht412 built the list s
RetSummaries(s) ==
    [NoRet EXCEPT !.op = "summaries",
                  !.summaries = IF summaries_exc(s) # "" THEN <<>> ELSE s,
                  !.exc = summaries_exc(s)]

\* a caller evaluates step_summaries_for_bht412(runs)
CallSummaries ==
    /\ ret.op = "none"
    /\ ret' = RetSummaries(step_summaries_for_bht412(runs))
    /\ UNCHANGED <<sim, script, runs, cfgFile, cfgVars>>

\* what a caller holds after step_detail_for_bht412 returned or raised d
RetDetail(d, step_id, option) ==
    [NoRet EXCEPT !.op = "detail", !.step_id = step_id, !.option = option,
                  !.detail = IF d.exc # "" THEN NoDetail ELSE d,
                  !.exc = d.exc]

\* a caller evaluates step_detail_for_bht412(runs, step_id, option_120k=option)
CallDetail(step_id, option) ==
    /\ ret.op = "none"
    /\ ret' = RetDetail(step_detail_for_bht412(runs, step_id, option),
                        step_id, option)
    /\ UNCHANGED <<sim, script, runs, cfgFile, cfgVars>>

\* what a caller holds after its calls-th diagnose_from_result returned r
RetDiagnose(r, option, calls) ==
    [NoRet EXCEPT !.op = "diagnose", !.option = option, !.calls = calls,
                  !.summaries = r.summaries, !.next_step = r.next_step,
                  !.detail = r.detail, !.exc = r.exc]

\* diagnose_from_result taking the track record out of the RunSet it is given
CallDiagnoseConsume(option) ==
    /\ \/ ret.op = "none"
       \/ ret.op = "diagnose" /\ ret.option = option /\ ret.calls < MaxRepeat
    /\ ret' = RetDiagnose(diagnose_from_result(runs, option), option,
                          ret.calls + 1)
    /\ runs' = [n \in DOMAIN runs \ {"60NR"} |-> runs[n]]
    /\ UNCHANGED <<sim, script, cfgFile, cfgVars>>

\* a caller evaluates diagnose_from_result(runs, option_120k=option), the
\* first time or again with the same option
CallDiagnose(option) ==
    /\ \/ ret.op = "none"
       \/ ret.op = "diagnose" /\ ret.option = option /\ ret.calls < MaxRepeat
    /\ ret' = RetDiagnose(diagnose_from_result(runs, option), option,
                          ret.calls + 1)
    /\ UNCHANGED <<sim, script, runs, cfgFile, cfgVars>>

Next ==
    \/ CallSummaries
    \/ \E id \in CallIds, o \in Options : CallDetail(id, o)
    \/ \E o \in Options : CallDiagnose(o)

Spec == Init /\ [][Next]_vars

-----------------------------------------------------------------------------
(* Config loading.  Callers are threads of the server; a load by            *)
(* diagnosis._load_cfg is one step, a load by diags._load_cfg is the test   *)
(* of the global, the parse and the store, which other callers interleave.  *)

\* cap on the parses a behaviour makes
MaxParses == 4

\* diagnosis._load_cfg: open the file and json.load it, at every call
DiagnosisLoadCfg(t) ==
    /\ pc[t] = "idle"
    /\ parses < MaxParses
    /\ parses' = parses + 1
    /\ objs' = objs + 1
    /\ got' = [got EXCEPT ![t] = objs + 1]
    /\ UNCHANGED <<sim, script, runs, cfgFile, ret, pc, CFG>>

\* diags._load_cfg, lines 34-36: return the global when it is set
MenuLoadCheck(t) ==
    /\ pc[t] = "idle"
    /\ IF CFG # 0
       THEN got' = [got EXCEPT ![t] = CFG] /\ pc' = pc
       ELSE pc' = [pc EXCEPT ![t] = "parse"] /\ got' = got
    /\ UNCHANGED <<sim, script, runs, cfgFile, ret, CFG, parses, objs>>

\* diags._load_cfg, lines 37-38: json.loads(cfg_path.read_text())
MenuLoadParse(t) ==
    /\ pc[t] = "parse"
    /\ parses < MaxParses
    /\ parses' = parses + 1
    /\ objs' = objs + 1
    /\ got' = [got EXCEPT ![t] = objs + 1]
    /\ pc' = [pc EXCEPT ![t] = "store"]
    /\ UNCHANGED <<sim, script, runs, cfgFile, ret, CFG>>

\* diags._load_cfg, lines 38-39: _CFG = <parsed>; return _CFG
MenuLoadStore(t) ==
    /\ pc[t] = "store"
    /\ CFG' = got[t]
    /\ pc' = [pc EXCEPT ![t] = "idle"]
    /\ UNCHANGED <<sim, script, runs, cfgFile, ret, got, parses, objs>>

InitCfgSpec ==
    /\ runs = RunSetOf([n \in Names |-> 0])
    /\ cfgFile = Bht412Cfg
    /\ ret = NoRet
    /\ InitCfg
    /\ InitSim

NextCfg ==
    \E t \in Callers :
        \/ DiagnosisLoadCfg(t)
        \/ MenuLoadCheck(t)
        \/ MenuLoadParse(t)
        \/ MenuLoadStore(t)

SpecCfg == InitCfgSpec /\ [][NextCfg]_vars

-----------------------------------------------------------------------------
(* The engine on measured values: RunSets in which the stages before one   *)
(* stage are DONE and that stage holds a record over a grid of amplitudes, *)
(* phases and blade heights.                                               *)

\* blade heights in mm: a level pair, and pairs 4, 6 and 8 mm apart
\* track60 at blade heights in mm: the RED/BLU pair above the ORG/GRN pair,
\* and the ORG/GRN pair above the RED/BLU pair
TrackRunSets ==
    {[x \in {"60NR"} |-> Rec(Track(r, b, o, g), 50, 70, 50, 220)] :
        r \in {18, 20, 22, 26}, b \in {18, 22}, o \in {-26, -22, -18}, g \in {-22, -18}}
    \cup
    {[x \in {"60NR"} |-> Rec(Track(r, -22, 22, g), 50, 70, 50, 220)] :
        r \in {-22, -20}, g \in {18, 22}}

DoneTo100 == [x \in {"60NR"} |-> RecGood]

\* ground100 at amplitude a, phase p
GroundRunSets ==
    {DoneTo100 @@ [x \in {"100NR"} |-> Rec(GoodTrack, a, p, 50, 220)] :
        a \in {100, 149, 150, 151, 165, 220, 275, 333, 500},
        p \in {5 * k : k \in 0..71}}

\* hover at amplitude a, phase p, the ground record DONE at phase gp
HoverRunSets ==
    {DoneTo100 @@ [x \in {"100NR"} |-> Rec(GoodTrack, 50, gp, 50, 220)]
               @@ [x \in {"HOVER"} |-> Rec(GoodTrack, a, p, 50, 220)] :
        gp \in {0, 20, 70, 180, 350},
        a \in {150, 200, 225, 250, 470},
        p \in {10 * k : k \in 0..35}}

DoneTo120 == DoneTo100 @@ [x \in {"100NR", "HOVER"} |-> RecGood]

\* 120 KIAS at vertical amplitude a, phase p
KiasRunSets ==
    {DoneTo120 @@ [x \in {"120K"} |-> Rec(GoodTrack, 50, 70, a, p)] :
        a \in {100, 120, 125, 150, 300, 444},
        p \in {5 * k : k \in 0..71}}

\* letdown at amplitude a, phase p, the ground record DONE at ga, gp
LetdownRunSets ==
    {DoneTo100 @@ [x \in {"100NR"} |-> Rec(GoodTrack, ga, gp, 50, 220)]
               @@ [x \in {"HOVER", "120K"} |-> RecGood]
               @@ [x \in {"LETDOWN"} |-> Rec(GoodTrack, a, p, 50, 220)] :
        ga \in {90, 140},
        gp \in {0, 30, 90, 150, 240, 330},
        a \in {80, 100, 180, 300},
        p \in {30 * k : k \in 0..11} \cup {250}}

\* a record with canonical amplitude la at 70 degrees and legacy amplitude va
\* at 200 degrees
LatFull(la, va) ==
    [track_rel_mm |-> GoodTrack,
     lat_1r_ips |-> la, lat_1r_phase_deg |-> 70,
     vib_1r_ips |-> va, vib_1r_phase_deg |-> 200]

\* the records holding any subset of these keys, the empty dict among them
LatKeyRecs ==
    {[k \in ks |-> LatFull(v[1], v[2])[k]] :
        ks \in SUBSET (DOMAIN LatFull(0, 0)), v \in {<<90, 220>>, <<220, 90>>}}

\* such a record as the ground, the hover or the letdown record, the stages
\* before it DONE
LatKeyRunSets ==
    {DoneTo100 @@ [x \in {"100NR"} |-> r] : r \in LatKeyRecs}
        \cup {DoneTo100 @@ [x \in {"100NR"} |-> RecGood]
                        @@ [x \in {"HOVER"} |-> r] : r \in LatKeyRecs}
        \cup {DoneTo120 @@ [x \in {"120K"} |-> RecGood]
                        @@ [x \in {"LETDOWN"} |-> r] : r \in LatKeyRecs}

\* the config with a tab sensitivity of 1 ips per degree
CfgStiffTab == [Bht412Cfg EXCEPT !.vertical_tab_ips_per_deg = 1000]

InitNum ==
    /\ \/ /\ runs \in TrackRunSets \cup GroundRunSets \cup HoverRunSets
                       \cup KiasRunSets \cup LetdownRunSets
          /\ cfgFile = Bht412Cfg
       \/ /\ runs \in KiasRunSets
          /\ cfgFile = CfgStiffTab
    /\ ret = NoRet
    /\ InitCfg
    /\ InitSim

\* the lines handed to _wrap: lengths 0, 1, 37, 38, 39, 76, 77 and 115
WrapInputs ==
    LET ten == "0123456789"
        s37 == ten \o ten \o ten \o "abcdefg"
        s38 == s37 \o "h"
        s39 == s38 \o "i"
    IN  {<<>>, <<"">>, <<"x">>, <<s37>>, <<s38>>, <<s39>>, <<s38 \o s38>>,
         <<s38 \o s39>>, <<s39 \o s38 \o s38>>, <<s39, "", s38 \o "yz", "x">>,
         <<"Move ORG/GRN pair DOWN: shorten both 2 flats", "Status: NEEDS">>}

\* a caller evaluates _wrap(lines)
CallWrap(lines) ==
    /\ ret.op = "none"
    /\ runs \in TrackRunSets
    /\ ret' = [op |-> "_wrap", lines |-> lines, value |-> wrap(lines)]
    /\ UNCHANGED <<sim, script, runs, cfgFile, cfgVars>>

\* the runs without the records of the ground100 aliases
NoGround(rs) ==
    LET aliases == load_cfg.state_map.ground100
    IN  [k \in DOMAIN rs \ {aliases[i] : i \in 1..Len(aliases)} |-> rs[k]]

\* _detail_hover(runs, cfg) applied to hover runs that hold no ground record
CallDetailHover ==
    /\ ret.op = "none"
    /\ runs \in HoverRunSets
    /\ ret' = [RetDetail(detail_hover(NoGround(runs), load_cfg), "hover", 0)
                  EXCEPT !.op = "_detail_hover"]
    /\ UNCHANGED <<sim, script, runs, cfgFile, cfgVars>>

NextNum ==
    \/ Next
    \/ \E lines \in WrapInputs : CallWrap(lines)
    \/ CallDetailHover

SpecNum == InitNum /\ [][NextNum]_vars

\* the engine on records that hold any subset of the lateral keys
InitLat ==
    /\ runs \in LatKeyRunSets
    /\ cfgFile = Bht412Cfg
    /\ ret = NoRet
    /\ InitCfg
    /\ InitSim

SpecLat == InitLat /\ [][Next]_vars

\* letdown at amplitude a on an axis of the phasor plane, the ground record
\* DONE at amplitude 0: the predicted ground amplitude is a itself, below,
\* at and above the ground limit of 0.15 ips
LetdownLimitRunSets ==
    {DoneTo100 @@ [x \in {"100NR"} |-> Rec(GoodTrack, 0, gp, 50, 220)]
               @@ [x \in {"HOVER", "120K"} |-> RecGood]
               @@ [x \in {"LETDOWN"} |-> Rec(GoodTrack, a, p, 50, 220)] :
        gp \in {0, 90},
        a \in {149, 150, 151},
        p \in {0, 90, 180, 270}}

\* the engine on letdown records, the predicted ground amplitude around the
\* ground limit
InitLetdown ==
    /\ runs \in LetdownRunSets \cup LetdownLimitRunSets
    /\ cfgFile = Bht412Cfg
    /\ ret = NoRet
    /\ InitCfg
    /\ InitSim

SpecLetdown == InitLetdown /\ [][Next]_vars

-----------------------------------------------------------------------------
(* The angle utilities applied to angles of any sign and size              *)

AngleInputs ==
    {19 * k : k \in -20..40} \cup {-720, -540, -360, -180, 180, 360, 540, 720}

ClockInputs == -400..760

\* a caller evaluates _ang_diff_deg(a, b)
CallAngDiff(a, b) ==
    /\ ret.op = "none"
    /\ ret' = [op |-> "_ang_diff_deg", a |-> a, b |-> b,
               value |-> ang_diff_deg(a, b)]
    /\ UNCHANGED <<sim, script, runs, cfgFile, cfgVars>>

\* a caller evaluates _deg_to_clock(deg)
CallDegToClock(deg) ==
    /\ ret.op = "none"
    /\ ret' = [op |-> "_deg_to_clock", deg |-> deg, value |-> deg_to_clock(deg)]
    /\ UNCHANGED <<sim, script, runs, cfgFile, cfgVars>>

\* a caller evaluates _hub_split_hint(corr_deg)
CallHubSplitHint(corr_deg) ==
    /\ ret.op = "none"
    /\ ret' = [op |-> "_hub_split_hint", deg |-> corr_deg,
               value |-> hub_split_hint(corr_deg)]
    /\ UNCHANGED <<sim, script, runs, cfgFile, cfgVars>>

NextFn ==
    \/ \E a \in AngleInputs, b \in AngleInputs : CallAngDiff(a, b)
    \/ \E deg \in ClockInputs : CallDegToClock(deg)
    \/ \E deg \in ClockInputs : CallHubSplitHint(deg)

SpecFn == InitCfgSpec /\ [][NextFn]_vars

-----------------------------------------------------------------------------
(* The 120 KIAS stage on every ordering of the blade table: the JSON object *)
(* blade_azimuth_deg is read into a dict that keeps the order of the file.  *)

\* the orderings of the four entries of the blade table
BladeTables ==
    {[i \in 1..4 |-> BladeAzimuth[p[i]]] :
        p \in {q \in [1..4 -> 1..4] : \A i, j \in 1..4 : q[i] = q[j] => i = j}}

\* 120 KIAS below and above the limit, at phases every 15 degrees: on a
\* blade, between two blades (45, 135, 225, 315) and in between
KiasPhaseRunSets ==
    {DoneTo120 @@ [x \in {"120K"} |-> Rec(GoodTrack, 50, 70, a, p)] :
        a \in {100, 150},
        p \in {15 * k : k \in 0..23}}

InitBlade ==
    /\ runs \in KiasPhaseRunSets
    /\ cfgFile \in {[Bht412Cfg EXCEPT !.blade_azimuth_deg = t] : t \in BladeTables}
    /\ ret = NoRet
    /\ InitCfg
    /\ InitSim

SpecBlade == InitBlade /\ [][Next]_vars

-----------------------------------------------------------------------------
(* The engine on config files that miss a key, hold a value that is not a  *)
(* number, or hold a zero or negative divisor.                             *)

NumericKeys ==
    {"track_pair_tol_in", "sep_tol_in", "pair_separation_in",
     "pitch_link_flat_in", "ground_ips_limit", "hover_ips_limit",
     "kias120_vert_limit", "letdown_ips_limit",
     "hub_weight_sensitivity_ips_per_100g", "product_weights_per_ips",
     "vertical_tab_ips_per_deg"}

RequiredKeys == NumericKeys \cup {"blade_azimuth_deg", "state_map"}

\* the config file without key k
CfgWithout(k) == [x \in DOMAIN Bht412Cfg \ {k} |-> Bht412Cfg[x]]

\* the config file with a value under k that float() rejects
CfgNonNumeric(k) == Bht412Cfg @@ [x \in {"non_numeric"} |-> {k}]

DivisorKeys ==
    {"pitch_link_flat_in", "hub_weight_sensitivity_ips_per_100g",
     "vertical_tab_ips_per_deg"}

\* the config file with the value v under the divisor key k
CfgWithValue(k, v) == [x \in DOMAIN Bht412Cfg |-> IF x = k THEN v ELSE Bht412Cfg[x]]

CfgVariants ==
    {Bht412Cfg}
        \cup {CfgWithout(k) : k \in RequiredKeys}
        \cup {CfgNonNumeric(k) : k \in NumericKeys}
        \cup {CfgWithValue(k, v) : k \in DivisorKeys, v \in {0, -50}}

\* one RunSet per stage in which that stage needs a correction, the empty
\* RunSet and the RunSet in which every stage is DONE
StageRunSets ==
    {RunSetOf([n \in Names |-> 0]),
     [x \in {"60NR"} |-> RecRB],
     [x \in {"60NR"} |-> RecSep],
     DoneTo100 @@ [x \in {"100NR"} |-> RecGndHigh],
     DoneTo100 @@ [x \in {"100NR"} |-> RecGood] @@ [x \in {"HOVER"} |-> RecHovLim],
     DoneTo100 @@ [x \in {"100NR"} |-> RecGood] @@ [x \in {"HOVER"} |-> RecHovHigh],
     DoneTo120 @@ [x \in {"120K"} |-> RecVertHigh],
     DoneTo120 @@ [x \in {"120K"} |-> RecGood] @@ [x \in {"LETDOWN"} |-> RecLetHigh],
     DoneTo120 @@ [x \in {"120K", "LETDOWN"} |-> RecGood]}

InitBadCfg ==
    /\ runs \in StageRunSets
    /\ cfgFile \in CfgVariants
    /\ ret = NoRet
    /\ InitCfg
    /\ InitSim

SpecBadCfg == InitBadCfg /\ [][Next]_vars

-----------------------------------------------------------------------------
(* The handheld unit: keys, screens and the acquisition.  A handler is the  *)
(* function from the state and the key to the state it leaves; a press is   *)
(* sim.dispatch(key) run by the button's on_click at the start of a script  *)
(* run (src/rads/ui/device.py).                                             *)

\* the digit keys pressed; the other eight digits act as these two do
DigitKeys == {"1", "2"}

\* Key: the keys pressed.  LAMP stands for LAMP, CONTRAST_UP and
\* CONTRAST_DN, which write lamp and contrast only; PRINT, DOT and
\* PLUSMINUS are not pressed
Keys ==
    {"POWER", "LAMP", "F1", "F2", "F3", "F4", "UP", "DOWN", "LEFT", "RIGHT",
     "DO", "QUIT", "HELP"} \cup DigitKeys

\* the digits, in the order of their character codes
Digits == <<"0", "1", "2", "3", "4", "5", "6", "7", "8", "9">>

\* key.value.isdigit()
IsDigit(key) == \E i \in 1..Len(Digits) : Digits[i] = key

Min(a, b) == IF a <= b THEN a ELSE b

\* max_start of _handle_setup_412: len(SETUP_412_LINES) - view_rows
SetupMaxStart == 49

\* AIRCRAFT_TYPES, the type of each pair
AIRCRAFT_TYPES ==
    <<"412_50", "412_41", "206B", "206L", "206LF", "212", "407", "407DS",
      "ENC250", "FFT", "TRAC", "UH1">>

PLANS == <<"INITIAL", "FLIGHT", "TAIL", "SPECTRUM", "VIBCHK">>

\* plan_sequences_for_412()
plan_sequences_for_412 ==
    [p \in {"INITIAL", "FLIGHT", "TAIL", "SPECTRUM", "VIBCHK"} |->
        CASE p = "INITIAL" -> <<"60NR", "100NR", "HOVER">>
          [] p = "FLIGHT" -> <<"HOVER", "120K", "LETDOWN">>
          [] p = "TAIL" -> <<"TR-HOVER", "TR-80K">>
          [] p = "SPECTRUM" -> <<"ASPA", "ZOOM">>
          [] p = "VIBCHK" -> <<"CHECK">>]

\* plan_sequences_for_412().get(plan, [])
PlanSeq(plan) ==
    IF plan \in DOMAIN plan_sequences_for_412
    THEN plan_sequences_for_412[plan] ELSE <<>>

\* seq.index(x) for x in seq, counted from 0
IndexOf(seq, x) == (CHOOSE i \in 1..Len(seq) :
                        seq[i] = x /\ \A j \in 1..(i - 1) : seq[j] # x) - 1

\* default_next_state: the first state of the plan that is not completed
default_next_state(flight_plan, completed) ==
    LET seq == PlanSeq(flight_plan)
        open == {i \in 1..Len(seq) : seq[i] \notin completed}
    IN  IF open = {} THEN ""
        ELSE seq[CHOOSE i \in open : \A j \in open : i <= j]

\* d.get(k, {}) and d.get(k, [])
GetOr(d, k, default) == IF k \in DOMAIN d THEN d[k] ELSE default

\* sim.flight_id alone: the placeholder "?" counts as a flight id
HasFlightId_placeholder(s) == s.flight_id # <<>>

\* sim.flight_id and sim.flight_id != "?"
HasFlightId(s) == s.flight_id # <<>> /\ s.flight_id # <<"?">>

\* A RunSet of the session, measurements[flight_id], is a dict whose key
\* order the DISPLAY lists show: the sequence of its entries in insertion
\* order, each the state name and the record stored under it.
\* list(d.keys())
DictKeys(d) == [i \in 1..Len(d) |-> d[i].state]

\* k in d, for k over the keys of d
KeySet(d) == {d[i].state : i \in 1..Len(d)}

\* d[k] = v: a new key goes last, a key already there keeps its place
DictPut(d, k, v) ==
    IF k \in KeySet(d)
    THEN [i \in 1..Len(d) |-> IF d[i].state = k THEN v ELSE d[i]]
    ELSE Append(d, v)

\* list(sim.measurements.get(sim.flight_id, {}).keys()) if the flight id is
\* set, else []
CompletedStates(s) ==
    IF HasFlightId(s)
    THEN KeySet(GetOr(s.measurements, s.flight_id, <<>>)) ELSE {}

\* sim.flight_plan or "INITIAL"
PlanOrInitial(s) == IF s.flight_plan = "" THEN "INITIAL" ELSE s.flight_plan

\* RADSState.push
push(s, screen_id) == [s EXCEPT !.stack = Append(@, screen_id)]

\* RADSState.pop: the last screen of the stack is never removed
pop(s) ==
    IF Len(s.stack) > 1
    THEN [s EXCEPT !.stack = SubSeq(@, 1, Len(@) - 1)] ELSE s

\* RADSState.current, by its id
current(s) == s.stack[Len(s.stack)]

\* an if in the place of the while: one screen is popped
pop_once(s, screen_id) ==
    IF current(s) = screen_id THEN s ELSE pop(s)

\* while sim.stack and sim.current.id != screen_id: sim.pop()
\* pop() leaves the stack alone at length 1, so with another screen there
\* the loop runs for ever
RECURSIVE pop_until(_, _)
pop_until(s, screen_id) ==
    IF current(s) = screen_id THEN s
    ELSE IF Len(s.stack) = 1 THEN [s EXCEPT !.hung = TRUE]
    ELSE pop_until(pop(s), screen_id)

\* _is_412
is_412(s) == s.aircraft_type \in {"412_50", "412_41"}

\* sim.push(tab); sim.menu_index = 0
PushTab(s, screen_id) == [push(s, screen_id) EXCEPT !.menu_index = 0]

\* sim.pop() together with sim.menu_index = 0
PopHome(s) == [pop(s) EXCEPT !.menu_index = 0]

\* rads/menus/measurement.py: the handle function of each MEASURE screen
measurement_handle(s, key) ==
    LET step == IF key = "DOWN" THEN 1 ELSE -1
        handle_main ==
            LET idx == s.menu_index % 4 IN
            CASE key = "F2" -> PushTab(s, "display")
              [] key = "F3" -> PushTab(s, "diags")
              [] key = "F4" -> PushTab(s, "manager")
              [] key \in {"UP", "DOWN"} ->
                    [s EXCEPT !.menu_index = (@ + step) % 4]
              [] key = "DO" ->
                    (CASE idx = 0 -> push(s, "measure_select_aircraft")
                       [] idx = 1 -> push(s, "measure_select_tail")
                       [] idx = 2 -> PushTab(s, "measure_select_plan")
                       [] idx = 3 -> push(s, "measure_entry_flightid"))
              [] key = "QUIT" ->
                    (CASE idx = 0 -> [s EXCEPT !.aircraft_type = "412_50"]
                       [] idx = 1 /\ s.tail_number # <<>> ->
                             [s EXCEPT !.tail_number = <<>>]
                       [] idx = 2 /\ s.flight_plan # "" ->
                             [s EXCEPT !.flight_plan = "INITIAL",
                                       !.active_test_state = ""]
                       [] idx = 3 /\ HasFlightId(s) ->
                             [s EXCEPT !.flight_id = <<"?">>]
                       [] OTHER -> PopHome(s))
              [] OTHER -> s
        handle_aircraft ==
            LET n == Len(AIRCRAFT_TYPES)
                typ == AIRCRAFT_TYPES[(s.menu_index % n) + 1]
            IN
            CASE key \in {"UP", "DOWN"} ->
                    [s EXCEPT !.menu_index = (@ + step) % n]
              [] key \in {"LEFT", "RIGHT"} ->
                    [s EXCEPT !.menu_index =
                        (@ + (IF key = "RIGHT" THEN 3 ELSE -3)) % n]
              [] key = "DO" ->
                    PopHome([s EXCEPT
                        !.aircraft_type = typ,
                        !.tail_numbers_by_type =
                            IF typ \in DOMAIN @ THEN @
                            ELSE (typ :> <<>>) @@ @])
              [] key = "QUIT" -> PopHome(s)
              [] OTHER -> s
        handle_tail_select ==
            LET tails == GetOr(s.tail_numbers_by_type, s.aircraft_type, <<>>)
                n == 1 + Len(tails)
                i == s.menu_index % n
            IN
            CASE key \in {"UP", "DOWN"} ->
                    [s EXCEPT !.menu_index = (@ + step) % n]
              [] key = "DO" ->
                    IF i = 0
                    THEN push([s EXCEPT !.input_buffer = <<>>],
                              "measure_entry_tail")
                    ELSE PopHome([s EXCEPT !.tail_number = tails[i]])
              [] key = "QUIT" -> PopHome(s)
              [] OTHER -> s
        handle_tail_entry ==
            LET value == s.input_buffer
                tails == GetOr(s.tail_numbers_by_type, s.aircraft_type, <<>>)
                saved ==
                    IF value # <<>>
                    THEN [s EXCEPT
                            !.tail_number = value,
                            !.tail_numbers_by_type =
                                (s.aircraft_type :>
                                    IF \E j \in 1..Len(tails) : tails[j] = value
                                    THEN tails ELSE <<value>> \o tails) @@ @]
                    ELSE s
                closed == pop([saved EXCEPT !.input_buffer = <<>>])
            IN
            CASE key = "QUIT" -> pop([s EXCEPT !.input_buffer = <<>>])
              [] key = "DO" ->
                    [(IF current(closed) = "measure_select_tail"
                      THEN pop(closed) ELSE closed) EXCEPT !.menu_index = 0]
              [] IsDigit(key) -> [s EXCEPT !.input_buffer = Append(@, key)]
              [] key = "." -> [s EXCEPT !.input_buffer = Append(@, ".")]
              [] key = "+/-" ->
                    [s EXCEPT !.input_buffer =
                        IF @ # <<>> /\ Head(@) = "-"
                        THEN Tail(@) ELSE <<"-">> \o @]
              [] key = "LEFT" ->
                    [s EXCEPT !.input_buffer =
                        IF @ = <<>> THEN @ ELSE SubSeq(@, 1, Len(@) - 1)]
              [] OTHER -> s
        handle_plan ==
            LET n == Len(PLANS) IN
            CASE key \in {"UP", "DOWN"} ->
                    [s EXCEPT !.menu_index = (@ + step) % n]
              [] key = "DO" ->
                    PushTab(pop([s EXCEPT
                                !.flight_plan = PLANS[(s.menu_index % n) + 1],
                                !.active_test_state = ""]),
                            "measure_select_test")
              [] key = "QUIT" -> PopHome(s)
              [] OTHER -> s
        handle_flightid_entry ==
            CASE key = "QUIT" -> pop([s EXCEPT !.input_buffer = <<>>])
              [] key = "DO" ->
                    pop([s EXCEPT
                        !.flight_id = IF s.input_buffer # <<>>
                                      THEN s.input_buffer ELSE @,
                        !.input_buffer = <<>>])
              [] IsDigit(key) -> [s EXCEPT !.input_buffer = Append(@, key)]
              [] key = "LEFT" ->
                    [s EXCEPT !.input_buffer =
                        IF @ = <<>> THEN @ ELSE SubSeq(@, 1, Len(@) - 1)]
              [] OTHER -> s
        setup ==
            IF is_412(s) THEN PushTab(s, "measure_setup_412") ELSE s
        handle_test_select ==
            LET seq == IF is_412(s) THEN PlanSeq(PlanOrInitial(s)) ELSE <<>>
            IN
            CASE key = "QUIT" -> PopHome(s)
              [] key # "QUIT" /\ seq = <<>> -> s
              [] seq # <<>> /\ key \in {"UP", "DOWN"} ->
                    [s EXCEPT !.menu_index = (@ + step) % Len(seq)]
              [] seq # <<>> /\ key \in {"HELP", "F1"} -> setup
              [] seq # <<>> /\ key = "DO" ->
                    IF s.tail_number = <<>> \/ ~HasFlightId(s) THEN s
                    ELSE push([s EXCEPT !.active_test_state =
                                    seq[(s.menu_index % Len(seq)) + 1]],
                              "measure_test_status")
              [] OTHER -> s
        handle_test_status ==
            LET state == IF s.active_test_state # ""
                         THEN s.active_test_state
                         ELSE default_next_state(PlanOrInitial(s),
                                                 CompletedStates(s))
            IN
            CASE key = "F2" -> PushTab(s, "display")
              [] key = "F3" -> PushTab(s, "diags")
              [] key = "F4" -> PushTab(s, "manager")
              [] key \in {"F1", "HELP"} -> setup
              [] key = "QUIT" -> pop_until(s, "measure_select_test")
              [] key = "DO" ->
                    IF state = "" \/ s.tail_number = <<>> \/ ~HasFlightId(s)
                    THEN s
                    ELSE push([s EXCEPT !.pending_test_state = state,
                                        !.pending_acq = TRUE],
                              "measure_measuring")
              [] OTHER -> s
        handle_measuring ==
            IF key = "QUIT"
            THEN pop([s EXCEPT !.pending_acq = FALSE,
                               !.pending_test_state = ""])
            ELSE s
        handle_acq_done ==
            LET back == pop_until(s, "measure_select_test")
                seq == PlanSeq(PlanOrInitial(s))
                on_list == \E j \in 1..Len(seq) : seq[j] = s.active_test_state
            IN
            IF key # "QUIT" THEN s
            ELSE IF back.hung THEN back
            ELSE [back EXCEPT !.menu_index =
                    IF s.active_test_state # "" /\ on_list
                    THEN IndexOf(seq, s.active_test_state) ELSE 0]
        handle_setup_412 ==
            CASE key \in {"F1", "QUIT"} -> PopHome(s)
              [] key \in {"UP", "DOWN"} ->
                    [s EXCEPT !.menu_index =
                        Min(Max(0, @ + step), SetupMaxStart)]
              [] OTHER -> s
        id == current(s)
    IN
    CASE id = "measure" -> handle_main
      [] id = "measure_select_aircraft" -> handle_aircraft
      [] id = "measure_select_tail" -> handle_tail_select
      [] id = "measure_entry_tail" -> handle_tail_entry
      [] id = "measure_select_plan" -> handle_plan
      [] id = "measure_entry_flightid" -> handle_flightid_entry
      [] id = "measure_select_test" -> handle_test_select
      [] id = "measure_test_status" -> handle_test_status
      [] id = "measure_measuring" -> handle_measuring
      [] id = "measure_acq_done" -> handle_acq_done
      [] id = "measure_setup_412" -> handle_setup_412

\* rads/menus/manager.py: the handle function of each MANAGER screen
manager_handle(s, key) ==
    LET handle_main ==
            CASE key = "F1" -> PushTab(s, "measure")
              [] key = "F2" -> PushTab(s, "display")
              [] key = "F3" -> PushTab(s, "diags")
              [] key \in {"UP", "DOWN"} ->
                    [s EXCEPT !.menu_index =
                        (@ + (IF key = "DOWN" THEN 1 ELSE -1)) % 2]
              [] key = "DO" ->
                    IF s.menu_index % 2 = 0
                    THEN PushTab(s, "manager_status")
                    ELSE PushTab(s, "manager_reset")
              [] key = "QUIT" -> PopHome(s)
              [] OTHER -> s
        handle_status == IF key = "QUIT" THEN pop(s) ELSE s
        handle_reset ==
            CASE key = "QUIT" -> pop(s)
              [] key = "DO" ->
                    pop([s EXCEPT
                        !.measurements = EmptyRec,
                        !.tail_numbers_by_type =
                            [t \in {s.aircraft_type} |-> <<>>],
                        !.tail_number = <<>>,
                        !.flight_id = <<"?">>,
                        !.active_test_state = ""])
              [] OTHER -> s
        id == current(s)
    IN
    CASE id = "manager" -> handle_main
      [] id = "manager_status" -> handle_status
      [] id = "manager_reset" -> handle_reset

\* a < b for two strings of digits, in the order sorted() puts strings in
RECURSIVE StrLess(_, _)
StrLess(a, b) ==
    IF b = <<>> THEN FALSE
    ELSE IF a = <<>> THEN TRUE
    ELSE IF Head(a) # Head(b)
         THEN IndexOf(Digits, Head(a)) < IndexOf(Digits, Head(b))
    ELSE StrLess(Tail(a), Tail(b))

\* _active_runs (diags.py and display.py hold the same function): the
\* RunSet of the current flight, else of the flight whose id sorts last
active_runs(s) ==
    LET fids == DOMAIN s.measurements IN
    IF s.flight_id # <<>> /\ s.flight_id \in fids
    THEN s.measurements[s.flight_id]
    ELSE IF fids # {}
    THEN s.measurements[CHOOSE f \in fids :
                            \A g \in fids \ {f} : StrLess(g, f)]
    ELSE <<>>

\* the fallback list of _available_states
FallbackStates ==
    <<"IDLE", "35%TQ", "HOVER", "60K", "100K", "120K", "130K", "140K",
      "L/DOWN">>

\* _available_states
available_states(s) ==
    IF active_runs(s) # <<>> THEN DictKeys(active_runs(s))
    ELSE FallbackStates

\* the elements of seq that satisfy keep, in their order
RECURSIVE Filter(_, _)
Filter(seq, keep) ==
    IF seq = <<>> THEN <<>>
    ELSE (IF Head(seq) \in keep THEN <<Head(seq)>> ELSE <<>>)
            \o Filter(Tail(seq), keep)

\* _ordered_states: for a 412 the recorded states in the order of the plan,
\* then the other recorded states in the order they were stored
ordered_states(s, rs) ==
    LET states == DictKeys(rs)
        seq == PlanSeq(PlanOrInitial(s))
        ordered == Filter(seq, KeySet(rs))
    IN  IF states = <<>> THEN available_states(s)
        ELSE IF is_412(s)
        THEN ordered \o
             Filter(states,
                    KeySet(rs) \ {ordered[i] : i \in 1..Len(ordered)})
        ELSE states

\* states = _ordered_states(sim, runs) if runs else _available_states(sim)
PlotStates(s) ==
    IF active_runs(s) # <<>> THEN ordered_states(s, active_runs(s))
    ELSE available_states(s)

\* rads/menus/display.py: the handle function of each DISPLAY screen
display_handle(s, key) ==
    LET step == IF key = "DOWN" THEN 1 ELSE -1
        id == current(s)
        handle_mode ==
            LET idx == s.menu_index % 5 IN
            CASE key \in {"UP", "DOWN"} ->
                    [s EXCEPT !.menu_index = (@ + step) % 5]
              [] key = "DO" ->
                    (CASE idx = 4 -> PushTab(s, "display_table")
                       [] idx = 1 -> PushTab(s, "display_complete_flight")
                       [] OTHER -> PushTab(s, "display_test_states"))
              [] key = "QUIT" -> PopHome(s)
              [] OTHER -> s
        handle_complete_flight ==
            LET states == ordered_states(s, active_runs(s)) IN
            CASE key \in {"UP", "DOWN"} ->
                    [s EXCEPT !.menu_index = (@ + step) % Len(states)]
              [] key = "QUIT" -> PopHome(s)
              [] OTHER -> s
        handle_test_states ==
            LET states == available_states(s) IN
            CASE key \in {"UP", "DOWN"} ->
                    [s EXCEPT !.menu_index = (@ + step) % Len(states)]
              [] key = "DO" ->
                    PushTab([s EXCEPT !.display_state =
                                states[(s.menu_index % Len(states)) + 1]],
                            "display_displays")
              [] key = "QUIT" -> PopHome(s)
              [] OTHER -> s
        handle_displays ==
            LET idx == s.menu_index % 3
                states == ordered_states(s, active_runs(s))
                on_list == \E j \in 1..Len(states) : states[j] = s.display_state
                sel == [s EXCEPT !.menu_index =
                            IF on_list THEN IndexOf(states, s.display_state)
                            ELSE 0]
            IN
            CASE key \in {"UP", "DOWN"} ->
                    [s EXCEPT !.menu_index = (@ + step) % 3]
              [] key = "DO" ->
                    (CASE idx = 0 -> push(sel, "display_plot_track")
                       [] idx = 1 -> push(sel, "display_plot_polar")
                       [] idx = 2 -> push(sel, "display_table"))
              [] key = "QUIT" -> PopHome(s)
              [] OTHER -> s
        handle_plot_view ==
            LET plot == id \in {"display_plot_track", "display_plot_polar"}
                states == PlotStates(s)
                moved == (s.menu_index + step) % Len(states)
            IN
            CASE key = "DO" /\ plot -> push(s, "display_table")
              [] key \in {"UP", "DOWN"} /\ plot ->
                    [s EXCEPT !.menu_index = moved,
                              !.display_state = states[moved + 1]]
              [] key = "QUIT" ->
                    IF id = "display_table" THEN pop(s) ELSE PopHome(s)
              [] OTHER -> s
    IN
    \* _global_tab_keys comes first in every handler
    CASE key = "F1" -> PushTab(s, "measure")
      [] key = "F3" -> PushTab(s, "diags")
      [] key = "F4" -> PushTab(s, "manager")
      [] key \notin {"F1", "F3", "F4"} ->
            CASE id = "display" -> handle_mode
              [] id = "display_complete_flight" -> handle_complete_flight
              [] id = "display_test_states" -> handle_test_states
              [] id = "display_displays" -> handle_displays
              [] id \in {"display_plot_track", "display_plot_polar",
                         "display_table"} -> handle_plot_view

\* a menu whose Summary Display item names a screen of its own
MENU_ITEMS_summary_screen ==
    <<"diags_predictions", "diags_adjustables", "diags_corrections",
      "_complete_flight", "display_summary", "diags_all_limits",
      "diags_defaults", "_main">>

\* _MENU_ITEMS, the target of each item
MENU_ITEMS ==
    <<"diags_predictions", "diags_adjustables", "diags_corrections",
      "_complete_flight", "_summary", "diags_all_limits", "diags_defaults",
      "_main">>

\* rads/menus/diags.py: the handle function of each DIAGS screen; the page
\* keys LEFT and RIGHT write diags_page only
diags_handle(s, key) ==
    LET id == current(s)
        handle_limits ==
            CASE key = "UP" -> push(s, "diags_all_limits")
              [] key = "DO" -> push(s, "diags_warnings")
              [] key = "QUIT" -> PopHome(s)
              [] OTHER -> s
        handle_all_limits == IF key = "QUIT" THEN pop(s) ELSE s
        handle_warnings ==
            CASE key = "DOWN" -> PushTab(s, "diags_menu")
              [] key = "QUIT" -> PopHome(s)
              [] OTHER -> s
        handle_diag_menu ==
            LET n == Len(MENU_ITEMS)
                target == MENU_ITEMS[(s.menu_index % n) + 1]
            IN
            CASE key \in {"UP", "DOWN"} ->
                    [s EXCEPT !.menu_index =
                        (@ + (IF key = "DOWN" THEN 1 ELSE -1)) % n]
              [] key = "DO" ->
                    (CASE target = "_complete_flight" ->
                             PushTab(s, "display_complete_flight")
                       [] target = "_summary" -> PushTab(s, "display")
                       [] target = "_main" ->
                             \* while len(sim.stack) > 1: sim.pop()
                             [s EXCEPT !.stack = <<Head(@)>>,
                                       !.menu_index = 0]
                       [] OTHER -> PushTab(s, target))
              [] key = "QUIT" -> PopHome(s)
              [] OTHER -> s
        handle_corrections ==
            IF key = "QUIT" THEN PushTab(s, "diags_menu") ELSE s
        handle_simple_back == IF key = "QUIT" THEN PopHome(s) ELSE s
    IN
    \* _global_tab_keys comes first in every handler
    CASE key = "F1" -> PushTab(s, "measure")
      [] key = "F2" -> PushTab(s, "display")
      [] key = "F4" -> PushTab(s, "manager")
      [] key \notin {"F1", "F2", "F4"} ->
            CASE id = "diags" -> handle_limits
              [] id = "diags_all_limits" -> handle_all_limits
              [] id = "diags_warnings" -> handle_warnings
              [] id = "diags_menu" -> handle_diag_menu
              [] id = "diags_corrections" -> handle_corrections
              [] id \in {"diags_predictions", "diags_adjustables",
                         "diags_defaults"} -> handle_simple_back

\* self.current.handle(self, key): the handler register_all gave the screen
handle(s, key) ==
    LET id == current(s) IN
    CASE id \in {"measure", "measure_select_aircraft", "measure_select_tail",
                 "measure_entry_tail", "measure_select_plan",
                 "measure_entry_flightid", "measure_select_test",
                 "measure_test_status", "measure_measuring",
                 "measure_acq_done", "measure_setup_412"} ->
            measurement_handle(s, key)
      [] id \in {"display", "display_test_states", "display_displays",
                 "display_complete_flight", "display_plot_track",
                 "display_plot_polar", "display_table"} ->
            display_handle(s, key)
      [] id \in {"diags", "diags_all_limits", "diags_warnings", "diags_menu",
                 "diags_corrections", "diags_predictions",
                 "diags_adjustables", "diags_defaults"} ->
            diags_handle(s, key)
      [] id \in {"manager", "manager_status", "manager_reset"} ->
            manager_handle(s, key)

\* RADSState.dispatch
dispatch(s, key) ==
    IF key = "POWER"
    THEN IF s.powered
         THEN [s EXCEPT !.powered = FALSE]
         ELSE [s EXCEPT !.powered = TRUE,
                        !.stack = <<"measure">>,
                        !.menu_index = 0,
                        !.input_buffer = <<>>,
                        !.flight_plan = "INITIAL",
                        !.flight_id = <<"?">>,
                        !.active_test_state = "",
                        !.pending_acq = FALSE,
                        !.pending_test_state = "",
                        !.display_state = ""]
    ELSE IF ~s.powered THEN s
    ELSE IF key = "LAMP" THEN s
    ELSE handle(s, key)

\* sim.current.render(sim): what the render function of the screen writes.
\* _render_test_status fills active_test_state, _render_plot_track and
\* _render_plot_polar set display_state when the flight has runs; the other
\* render functions write the dropped fields only
render(s) ==
    LET id == current(s)
        state == IF s.active_test_state # "" THEN s.active_test_state
                 ELSE default_next_state(PlanOrInitial(s),
                                         CompletedStates(s))
        states == PlotStates(s)
    IN
    CASE id = "measure_test_status" ->
            IF state # "" /\ state # s.active_test_state
            THEN [s EXCEPT !.active_test_state = state] ELSE s
      [] id \in {"display_plot_track", "display_plot_polar"} ->
            IF active_runs(s) # <<>>
            THEN [s EXCEPT !.display_state =
                    states[(s.menu_index % Len(states)) + 1]]
            ELSE s
      [] OTHER -> s

\* the sum of the counters of acq_counts
RECURSIVE SumCounts(_, _)
SumCounts(counts, pairs) ==
    IF pairs = {} THEN 0
    ELSE LET p == CHOOSE q \in pairs : TRUE
         IN  counts[p[1]][p[2]] + SumCounts(counts, pairs \ {p})

\* how many acquisitions the session has stored
Acquired(s) ==
    SumCounts(s.acq_counts,
              UNION {{<<f, t>> : t \in DOMAIN s.acq_counts[f]} :
                        f \in DOMAIN s.acq_counts})

\* render_device, the block "Auto-complete acquisition" once its condition
\* holds.  The record simulate_test returns is a function of the aircraft,
\* tail, plan, flight id and state, which the entry's place gives, and of
\* the iteration.
acquire(s) ==
    LET plan == s.flight_plan
        test_state ==
            IF s.pending_test_state # "" THEN s.pending_test_state
            ELSE IF s.active_test_state # "" THEN s.active_test_state
            ELSE default_next_state(plan, CompletedStates(s))
        counts == GetOr(s.acq_counts, s.flight_id, EmptyRec)
        iteration == GetOr(counts, test_state, 0)
        stored == DictPut(GetOr(s.measurements, s.flight_id, <<>>),
                          test_state,
                          [state |-> test_state, iteration |-> iteration])
    IN
    IF s.tail_number = <<>> \/ ~HasFlightId(s) \/ test_state = ""
    THEN [s EXCEPT !.pending_acq = FALSE,
                   !.stack[Len(s.stack)] = "measure"]
    ELSE [s EXCEPT
            !.acq_counts =
                (s.flight_id :> ((test_state :> iteration + 1) @@ counts))
                    @@ @,
            !.measurements = (s.flight_id :> stored) @@ @,
            !.active_test_state = default_next_state(plan, KeySet(stored)),
            !.pending_acq = FALSE,
            !.pending_test_state = "",
            !.stack[Len(s.stack)] = "measure_acq_done"]

\* Bounds of SpecUI.  The session is followed through MEASURE and MANAGER:
\* the depth of the stack, the tab screens opened on top of the first, the
\* DISPLAY and DIAGS screens on the stack, the aircraft types and flight
\* plans chosen (prefixes of AIRCRAFT_TYPES and PLANS), the characters
\* typed, the tail numbers kept per type, the acquisitions stored, the
\* lines scrolled in SETUP and the fallback states chosen in DISPLAY
MaxDepth == 4
MaxTabs == 1
MaxViews == 0
MaxTypes == 1
MaxPlans == 1
MaxInput == 1
MaxTails == 1
MaxAcq == 2
MaxScroll == 1
MaxFallback == 1

\* the screens a tab key or the DIAGS menu opens on top of any screen
TabRoots == {"measure", "display", "diags", "manager"}

\* the screens of DISPLAY and DIAGS
ViewScreens ==
    {"display", "display_test_states", "display_displays",
     "display_complete_flight", "display_plot_track", "display_plot_polar",
     "display_table",
     "diags", "diags_all_limits", "diags_warnings", "diags_menu",
     "diags_corrections", "diags_predictions", "diags_adjustables",
     "diags_defaults"}

\* the states this specification explores
WithinBounds(s) ==
    /\ Len(s.stack) <= MaxDepth
    /\ Cardinality({i \in 2..Len(s.stack) : s.stack[i] \in TabRoots})
            <= MaxTabs
    /\ Cardinality({i \in 1..Len(s.stack) : s.stack[i] \in ViewScreens})
            <= MaxViews
    /\ \E i \in 1..MaxTypes : s.aircraft_type = AIRCRAFT_TYPES[i]
    /\ \E i \in 1..MaxPlans : s.flight_plan = PLANS[i]
    /\ Len(s.input_buffer) <= MaxInput
    /\ \A t \in DOMAIN s.tail_numbers_by_type :
            Len(s.tail_numbers_by_type[t]) <= MaxTails
    /\ \A i \in 1..Len(FallbackStates) :
            s.display_state = FallbackStates[i] => i <= MaxFallback
    /\ current(s) = "measure_setup_412" => s.menu_index <= MaxScroll

\* a button's on_click: sim.dispatch(key), then the script runs again
Press(key) ==
    /\ ~sim.hung
    /\ sim.powered \/ key = "POWER"
    /\ sim' = dispatch(sim, key)
    /\ WithinBounds(sim')
    /\ script' = "run"
    /\ UNCHANGED <<runs, cfgFile, ret, cfgVars>>

\* render_device draws the LCD: sim.current.render(sim) if sim.powered
RenderLCD ==
    /\ ~sim.hung
    /\ script = "run"
    /\ sim' = IF sim.powered THEN render(sim) ELSE sim
    /\ script' = "lcd"
    /\ UNCHANGED <<runs, cfgFile, ret, cfgVars>>

\* render_device reaches the acquisition with its condition true, stores
\* the measurement and calls st.rerun()
AutoAcquire ==
    /\ ~sim.hung
    /\ script = "lcd"
    /\ sim.powered /\ current(sim) = "measure_measuring" /\ sim.pending_acq
    /\ Acquired(sim) < MaxAcq
    /\ sim' = acquire(sim)
    /\ script' = "run"
    /\ UNCHANGED <<runs, cfgFile, ret, cfgVars>>

InitUI ==
    /\ runs = EmptyRec
    /\ cfgFile = Bht412Cfg
    /\ ret = NoRet
    /\ InitCfg
    /\ InitSim

NextUI ==
    \/ \E key \in Keys : Press(key)
    \/ RenderLCD
    \/ AutoAcquire

SpecUI == InitUI /\ [][NextUI]_vars

\* Bounds of SpecNav.  The session is followed into DISPLAY and DIAGS as
\* well: a deeper stack that holds their screens, one acquisition stored
NavDepth == 5
NavViews == 4
NavAcq == 1

\* the states this specification explores
NavWithin(s) ==
    /\ Len(s.stack) <= NavDepth
    /\ Cardinality({i \in 2..Len(s.stack) : s.stack[i] \in TabRoots})
            <= MaxTabs
    /\ Cardinality({i \in 1..Len(s.stack) : s.stack[i] \in ViewScreens})
            <= NavViews
    /\ Acquired(s) <= NavAcq
    /\ \E i \in 1..MaxTypes : s.aircraft_type = AIRCRAFT_TYPES[i]
    /\ \E i \in 1..MaxPlans : s.flight_plan = PLANS[i]
    /\ Len(s.input_buffer) <= MaxInput
    /\ \A t \in DOMAIN s.tail_numbers_by_type :
            Len(s.tail_numbers_by_type[t]) <= MaxTails
    /\ \A i \in 1..Len(FallbackStates) :
            s.display_state = FallbackStates[i] => i <= MaxFallback
    /\ current(s) = "measure_setup_412" => s.menu_index <= MaxScroll

\* a button's on_click: sim.dispatch(key), then the script runs again
PressNav(key) ==
    /\ ~sim.hung
    /\ sim.powered \/ key = "POWER"
    /\ sim' = dispatch(sim, key)
    /\ NavWithin(sim')
    /\ script' = "run"
    /\ UNCHANGED <<runs, cfgFile, ret, cfgVars>>

\* render_device reaches the acquisition with its condition true
AcquireNav ==
    /\ AutoAcquire
    /\ NavWithin(sim')

NextNav ==
    \/ \E key \in Keys : PressNav(key)
    \/ RenderLCD
    \/ AcquireNav

SpecNav == InitUI /\ [][NextNav]_vars

-----------------------------------------------------------------------------
(* The DIAGS corrections screen (src/rads/menus/diags.py).  The render      *)
(* function reads the page in sim.diags_page and the flight id and RunSet   *)
(* that _active_runs returns; they are the arguments here, the RunSet being *)
(* the variable runs.                                                       *)

RECURSIVE Blanks(_)
Blanks(n) == IF n <= 0 THEN "" ELSE " " \o Blanks(n - 1)

\* s[:38].ljust(38)
ljust38(s) ==
    LET t == IF Len(s) > 38 THEN SubSeq(s, 1, 38) ELSE s
    IN  t \o Blanks(38 - Len(t))

\* f"{n:+4d}"
FmtPlus4(n) ==
    LET t == (IF n < 0 THEN "-" ELSE "+") \o ToString(Abs(n))
    IN  Blanks(4 - Len(t)) \o t

\* _hub_weight_table: the grams per blade from the ground record, else the
\* hover record; the two blades nearest to the correction angle share them
hub_weight_table(rs, cfg) ==
    LET state_map == Get(cfg, "state_map", EmptyRec)
        g == pick_state(rs, Get(state_map, "ground100", <<>>))
        m == IF Falsy(g) THEN pick_state(rs, Get(state_map, "hover", <<>>)) ELSE g
        zero == [b \in {"BLU", "ORG", "RED", "GRN"} |-> 0]
    IN  IF Falsy(m) THEN zero
        ELSE
        LET amp == LatAmp(m.rec)
            ph == LatPhase(m.rec)
            got_ips == Get(cfg, "hub_weight_sensitivity_ips_per_100g", 110)
            ips_per_100g == IF got_ips = 0 THEN 110 ELSE got_ips
            grams == IF ips_per_100g > 0
                     THEN RoundDiv(amp * 100, ips_per_100g * 10) * 10
                     ELSE 0
            corr == (ph + 180) % 360
            blade_az == Get(cfg, "blade_azimuth_deg", <<>>)
            d(i) == ang_diff_deg(corr, blade_az[i].az)
            \* sorted() is stable: equal distances keep the order of the table
            before(i) == {j \in 1..Len(blade_az) :
                            d(j) < d(i) \/ (d(j) = d(i) /\ j < i)}
            chosen == IF Len(blade_az) = 0 THEN {"BLU", "RED"}
                      ELSE {blade_az[i].blade :
                              i \in {k \in 1..Len(blade_az) :
                                        Cardinality(before(k)) < 2}}
            split == RoundDiv(grams, 2)
        IN  [b \in {"BLU", "ORG", "RED", "GRN"} \cup chosen |->
                IF b \in chosen THEN split ELSE 0]

\* pads the lines to n lines of 38 blanks
RECURSIVE PadLines(_, _)
PadLines(lines, n) ==
    IF Len(lines) >= n THEN lines ELSE PadLines(Append(lines, ljust38("")), n)

FirstN(v, n) == SubSeq(v, 1, IF Len(v) < n THEN Len(v) ELSE n)

\* _render_corrections with _lcd: the nine lines of the LCD, or the
\* exception the engine raised.  diags_page is clamped to 0..1.
render_corrections(diags_page, fid, rs) ==
    LET page == IF diags_page < 0 THEN 0 ELSE IF diags_page > 1 THEN 1 ELSE diags_page
        head == <<ljust38("CORRECTIONS  FLT " \o (IF fid = "" THEN "-" ELSE fid)
                            \o "  " \o ToString(page + 1) \o "/2")>>
        help_line == ljust38("L/R Page  QUIT Menu")
        lcd(lines) == Detail("CORRECTIONS",
                             Append(PadLines(FirstN(lines, 8), 8), help_line))
    IN  IF page = 0
        THEN LET tbl == hub_weight_table(rs, load_cfg)
             IN  lcd(head \o
                     <<ljust38("Hub Weight (Grams)"),
                       ljust38("+ add  - remove"),
                       ljust38("-- Blades --"),
                       ljust38("BLU " \o FmtPlus4(tbl["BLU"])
                                   \o "  ORG " \o FmtPlus4(tbl["ORG"])),
                       ljust38("RED " \o FmtPlus4(tbl["RED"])
                                   \o "  GRN " \o FmtPlus4(tbl["GRN"])),
                       ljust38("")>>)
        ELSE
        LET steps == step_summaries_for_bht412(rs)
            need == first_needs(steps, 1)
        IN  IF summaries_exc(steps) # "" THEN Raised(summaries_exc(steps))
            ELSE IF need = "complete"
            THEN lcd(head \o <<ljust38("No corrections required."),
                               ljust38("All steps DONE.")>>
                          \o [i \in 1..4 |-> ljust38("")])
            ELSE LET d == detail_gated(rs, load_cfg, need, 1, steps)
                 IN  IF d.exc # "" THEN d
                     ELSE lcd(head \o <<ljust38(d.title)>>
                                   \o [i \in 1..Len(FirstN(d.lines, 5)) |->
                                          ljust38(d.lines[i])])

\* the flight ids _active_runs returns with the RunSet rs: "" with no
\* measurement at all, else the id of a flight
ActiveFlightIds(rs) == IF DOMAIN rs = {} THEN {""} ELSE {"2"}

\* the values of sim.diags_page the render function is applied to
DiagsPages == -1..2

\* the RunSets whose records the acquisition stored: no record is empty
MeasuredRunSets == {rs \in RunSets : \A n \in DOMAIN rs : DOMAIN rs[n] # {}}

\* the corrections screen is drawn for the active flight
CallRenderCorrections(diags_page, fid) ==
    /\ ret.op = "none"
    /\ fid \in ActiveFlightIds(runs)
    /\ ret' = [RetDetail(render_corrections(diags_page, fid, runs), "", diags_page)
                  EXCEPT !.op = "_render_corrections"]
    /\ UNCHANGED <<sim, script, runs, cfgFile, cfgVars>>

InitDiags ==
    /\ runs \in MeasuredRunSets
    /\ cfgFile = Bht412Cfg
    /\ ret = NoRet
    /\ InitCfg
    /\ InitSim

NextDiags ==
    \/ CallSummaries
    \/ \E p \in DiagsPages, fid \in {"", "2"} : CallRenderCorrections(p, fid)

SpecDiags == InitDiags /\ [][NextDiags]_vars

-----------------------------------------------------------------------------
(* Claims                                                                  *)

\* the statuses of a returned summaries list
Stat(i) == ret.summaries[i].status

HasSummaries == ret.op \in {"summaries", "diagnose"}

\* every stage before stage i is DONE in the returned summaries
PriorsDone(i) == \A j \in 1..(i - 1) : Stat(j) = "DONE"

\* some alias name of stage i is a key of the RunSet
Resolves(i) ==
    \E k \in 1..Len(cfgFile.state_map[StepIds[i]]) :
        cfgFile.state_map[StepIds[i]][k] \in DOMAIN runs

\* the record under the first alias name of stage i that is a key
FirstRecord(i) ==
    LET al == cfgFile.state_map[StepIds[i]]
        k0 == CHOOSE k \in 1..Len(al) :
                  /\ al[k] \in DOMAIN runs
                  /\ \A j \in 1..(k - 1) : al[j] \notin DOMAIN runs
    IN  runs[al[k0]]

\* C1: step_summaries_for_bht412 returns the five stages in the order
\* track60, ground100, hover, kias120, letdown, and a stage that is not DONE
\* has every later stage LOCKED.
C1_StageOrder ==
    HasSummaries =>
        /\ Len(ret.summaries) = 5
        /\ \A i \in 1..5 :
               ret.summaries[i].step_id
                   = <<"track60", "ground100", "hover", "kias120", "letdown">>[i]
        /\ \A i \in 1..5 : \A j \in (i + 1)..5 :
               Stat(i) # "DONE" => Stat(j) = "LOCKED"

\* C1 witness: ground100 NEEDS locks hover although a hover record is there
C1_Witness ==
    /\ ret.op = "summaries"
    /\ Stat(1) = "DONE" /\ Stat(2) = "NEEDS" /\ Stat(3) = "LOCKED"
    /\ "HOVER" \in DOMAIN runs

\* C2: a stage is MISSING if and only if every preceding stage is DONE and
\* no alias name of the stage is a key of the RunSet; a record that resolves
\* never yields MISSING.
C2_MissingIffUnresolved ==
    ret.op = "summaries" =>
        \A i \in 1..5 : (Stat(i) = "MISSING") <=> (PriorsDone(i) /\ ~Resolves(i))

\* C3: when a track60 record resolves, track60 is DONE if and only if the
\* RED/BLU difference, the ORG/GRN difference and the pair separation are all
\* within tolerance, and NEEDS as soon as one of them is not.
C3_TrackDoneIffChecks ==
    (ret.op = "summaries" /\ Resolves(1)) =>
        LET c == track_checks(FirstRecord(1), cfgFile)
        IN  /\ (Stat(1) = "DONE") <=> (c.rb_ok /\ c.og_ok /\ c.sep_ok)
            /\ ~(c.rb_ok /\ c.og_ok /\ c.sep_ok) => Stat(1) = "NEEDS"

\* the amplitude stage i tests and its limit
StageAmp(i) ==
    IF i = 4 THEN VertAmp(FirstRecord(i)) ELSE LatAmp(FirstRecord(i))

StageLimit(i) ==
    IF i = 2 THEN cfgFile.ground_ips_limit
    ELSE IF i = 3 THEN cfgFile.hover_ips_limit
    ELSE IF i = 4 THEN cfgFile.kias120_vert_limit
    ELSE cfgFile.letdown_ips_limit

\* C4: a reachable stage among ground100, hover, kias120, letdown whose
\* record resolves is DONE if and only if its amplitude (vertical for
\* kias120, lateral for the others) is strictly below its limit, and NEEDS
\* otherwise, also when the amplitude equals the limit.
C4_DoneIffBelowLimit ==
    ret.op = "summaries" =>
        \A i \in 2..5 :
            (PriorsDone(i) /\ Resolves(i)) =>
                Stat(i) = (IF StageAmp(i) < StageLimit(i) THEN "DONE" ELSE "NEEDS")

\* C5: diagnose_from_result returns as next_step the first stage, in stage
\* order, that is not DONE, with the detail of that stage for the option it
\* was given; with all five DONE it returns "complete" and the fixed message.
C5_NextStep ==
    ret.op = "diagnose" =>
        LET NotDone == {i \in 1..5 : Stat(i) # "DONE"}
        IN  /\ ret.summaries = step_summaries_for_bht412(runs)
            /\ IF NotDone = {}
               THEN /\ ret.next_step = "complete"
                    /\ ret.detail.title = "DIAGS"
                    /\ ret.detail.lines
                           = <<"All steps DONE.", "Rotor within training limits.">>
               ELSE LET i == CHOOSE k \in NotDone : \A m \in NotDone : k <= m
                    IN  /\ ret.next_step = StepIds[i]
                        /\ ret.detail
                               = step_detail_for_bht412(runs, StepIds[i], ret.option)

\* C5 witness: the next step is kias120, asked with option 2
C5_Witness ==
    /\ ret.op = "diagnose"
    /\ ret.next_step = "kias120" /\ Stat(4) = "NEEDS"
    /\ ret.option = 2

\* C6: for each of the five stage ids, when the stage is LOCKED or MISSING
\* step_detail_for_bht412 returns the fixed two-line message of that status
\* and nothing computed from a record.
C6_GateMessage ==
    (ret.op = "detail" /\ ret.step_id \in StepIdSet) =>
        LET st == StatusOf(step_summaries_for_bht412(runs), ret.step_id)
        IN  /\ st = "LOCKED" =>
                   /\ ret.detail.exc = ""
                   /\ ret.detail.lines = <<"LOCKED: complete previous steps",
                                           "and re-measure until they are DONE.">>
            /\ st = "MISSING" =>
                   /\ ret.detail.exc = ""
                   /\ ret.detail.lines = <<"No measurement for this step.",
                                           "Go to MEASURE and run the regime.">>

\* C6 witness: the detail of a MISSING stage was asked for
C6_Witness ==
    /\ ret.op = "detail" /\ ret.step_id = "ground100"
    /\ StatusOf(step_summaries_for_bht412(runs), "ground100") = "MISSING"
    /\ ret.detail.lines[1] = "No measurement for this step."

\* C7: step_detail_for_bht412 with a stage id that is none of the five
\* returns, without raising, a fallback message that is neither the LOCKED
\* nor the MISSING message.
C7_UnknownFallback ==
    (ret.op = "detail" /\ ret.step_id \notin StepIdSet) =>
        /\ ret.detail.exc = ""
        /\ ret.detail.lines # <<"No measurement for this step.",
                                "Go to MEASURE and run the regime.">>
        /\ ret.detail.lines # <<"LOCKED: complete previous steps",
                                "and re-measure until they are DONE.">>

C9_FirstAliasWins ==
    /\ \A i \in 1..5 :
           Resolves(i) =>
               pick_state(runs, cfgFile.state_map[StepIds[i]]) = SomeRec(FirstRecord(i))
    /\ (ret.op = "summaries" /\ Resolves(2) /\ Stat(2) \in {"DONE", "NEEDS"}) =>
           ((Stat(2) = "DONE") <=> (LatAmp(FirstRecord(2)) < cfgFile.ground_ips_limit))
    /\ (ret.op = "detail" /\ ret.step_id = "ground100" /\ Resolves(2)
            /\ StatusOf(step_summaries_for_bht412(runs), "ground100")
                   \in {"DONE", "NEEDS"}) =>
           /\ ret.detail.lines[1]
                  = (IF LatAmp(FirstRecord(2)) < cfgFile.ground_ips_limit
                     THEN "Status: DONE" ELSE "Status: NEEDS")
           /\ ret.detail.lines[2]
                  = VibLine("LAT", LatAmp(FirstRecord(2)), LatPhase(FirstRecord(2)))

\* C9 witness: both names of ground100 are keys and hold different records
C9_Witness ==
    /\ ret.op = "detail" /\ ret.step_id = "ground100"
    /\ "100NR" \in DOMAIN runs /\ "FPG" \in DOMAIN runs
    /\ runs["100NR"] = RecGood /\ runs["FPG"] = RecGndHigh
    /\ ret.detail.lines[1] = "Status: DONE"

\* C10: however many callers load the config, and however often, the config
\* source is parsed at most once and every caller receives the same object.
C10_ParsedOnce ==
    /\ parses <= 1
    /\ \A t, u \in Callers : (got[t] # 0 /\ got[u] # 0) => got[t] = got[u]

\* the status step_summaries_for_bht412 gives the step of the last detail call
DetailStatus == StatusOf(step_summaries_for_bht412(runs), ret.step_id)

StartsWith(s, p) == Len(s) >= Len(p) /\ SubSeq(s, 1, Len(p)) = p

\* some required key of the config file is absent or holds no number
CfgInvalid ==
    \E k \in RequiredKeys :
        \/ k \notin DOMAIN cfgFile
        \/ k \in NumericKeys /\ KeyExc(cfgFile, k) = "ValueError"

\* C11: with a config file in which a required key is absent or not numeric,
\* every engine call fails with ConfigError raised by the load; no KeyError or
\* ValueError comes out of stage evaluation or detail generation, and no call
\* returns normally.
C11_ConfigErrorAtLoad ==
    (ret.op \in {"summaries", "detail", "diagnose"} /\ CfgInvalid)
        => ret.exc = "ConfigError"

\* the config value the correction formula of a step divides by
DivisorOf(step_id) ==
    IF step_id = "track60" THEN cfgFile.pitch_link_flat_in
    ELSE IF step_id = "kias120" THEN cfgFile.vertical_tab_ips_per_deg
    ELSE cfgFile.hub_weight_sensitivity_ips_per_100g

\* C12: when the config value a correction formula divides by is zero or
\* negative, the detail call of a stage that NEEDS a correction returns
\* normally and a hub weight it shows is 0 g.
C12_NonPositiveDivisor ==
    (/\ ret.op = "detail"
     /\ ret.step_id \in StepIdSet
     /\ ~CfgInvalid
     /\ DetailStatus = "NEEDS"
     /\ DivisorOf(ret.step_id) <= 0)
        => /\ ret.exc = ""
           /\ \A i \in 1..Len(ret.detail.lines) :
                  /\ StartsWith(ret.detail.lines[i], "Add HUB weight: ~")
                         => ret.detail.lines[i] = "Add HUB weight: ~0 g"
                  /\ StartsWith(ret.detail.lines[i], "Suggested HUB weight: ~")
                         => ret.detail.lines[i] = "Suggested HUB weight: ~0 g"

\* the label of n half hours, n in 0..24: 12:00, 12:30, 1:00, ..., 11:30, 12:00
HalfHourLabel(n) ==
    ToString(IF (n \div 2) % 12 = 0 THEN 12 ELSE (n \div 2) % 12)
        \o (IF n % 2 = 0 THEN ":00" ELSE ":30")

\* the number of half hours nearest to d / 30 hours, d in 0..359
NearestHalfHour(d) == CHOOSE n \in 0..24 : Abs(2 * d - 30 * n) <= 15

\* grams = (amp / sens) * 100 to the nearest multiple of 10
GramsFor(amp, sens) == 10 * RoundDiv(amp * 10, sens)

\* C13: when ground100 NEEDS a correction, its detail shows the hub weight
\* (amplitude / hub sensitivity) x 100 rounded to the nearest 10 g and, as
\* placement, the clock label of (phase + 180) mod 360; amplitude 0.22 at 70
\* degrees with limit 0.15 and sensitivity 0.11 gives NEEDS, 200 g and 8:30.
C13_GroundCorrection ==
    (/\ ret.op = "detail" /\ ret.step_id = "ground100"
     /\ cfgFile = Bht412Cfg
     /\ DetailStatus = "NEEDS")
        => LET amp == runs["100NR"].lat_1r_ips
               ph == runs["100NR"].lat_1r_phase_deg
               lines == ret.detail.lines
           IN  /\ ret.exc = ""
               /\ lines[1] = "Status: NEEDS"
               /\ lines[4] = "Add HUB weight: ~"
                      \o ToString(GramsFor(amp, cfgFile.hub_weight_sensitivity_ips_per_100g))
                      \o " g"
               /\ lines[5] = "Place @ "
                      \o HalfHourLabel(NearestHalfHour((ph + 180) % 360))
                      \o " (180" \o DegSign \o " from peak)"
               /\ (amp = 220 /\ ph = 70)
                      => /\ lines[4] = "Add HUB weight: ~200 g"
                         /\ lines[5] = "Place @ 8:30 (180" \o DegSign \o " from peak)"

\* C13 witness: the detail of ground100 at 0.22 ips, 70 degrees
C13_Witness ==
    /\ ret.op = "detail" /\ ret.step_id = "ground100"
    /\ "100NR" \in DOMAIN runs
    /\ runs["100NR"].lat_1r_ips = 220 /\ runs["100NR"].lat_1r_phase_deg = 70
    /\ ret.detail.lines[1] = "Status: NEEDS"
    /\ ret.detail.lines[4] = "Add HUB weight: ~200 g"

\* the length of the shorter arc between the angles a and b
ArcBetween(a, b) ==
    LET arcs == {Abs(a - b + 360 * k) : k \in -5..5}
    IN  CHOOSE d \in arcs : \A e \in arcs : d <= e

\* the indices of the lines that start with the prefix p
LinesWith(lines, p) == {i \in 1..Len(lines) : StartsWith(lines[i], p)}

\* _detail_hover on runs without a ground record,
\* the hover amplitude at or above the limit, decides AERO
NoGroundIsAero ==
    (/\ ret.op = "_detail_hover"
     /\ runs["HOVER"].lat_1r_ips >= cfgFile.hover_ips_limit)
        => LET lines == ret.detail.lines
           IN  /\ ret.exc = ""
               /\ lines[4] = "No Ground reference available"
               /\ lines[5] = "Decision: AERO (Blade) - product bal"
               /\ lines[6] = "Add TIP weights: ~"
                      \o ToString(Max(1, RoundDiv(runs["HOVER"].lat_1r_ips
                                      * cfgFile.product_weights_per_ips, 1000)))
                      \o " units"
               /\ lines[8] = "NOTE: tip weights are ~11x hub effect"
               /\ LinesWith(lines, "Decision:") = {5}

\* C14: when hover NEEDS a correction, the decision is MASS with the hub weight
\* of the ground100 formula iff the hover phase is within 30 degrees of the
\* ground100 phase, and otherwise AERO with max(1, round(amplitude x
\* product_weights_per_ips)) tip-weight units and the two-line warning;
\* exactly one decision line is emitted.  The ground reference is always
\* there when hover is NEEDS.
C14_HoverDecision ==
    /\ NoGroundIsAero
    /\ (/\ ret.op = "detail" /\ ret.step_id = "hover"
        /\ cfgFile = Bht412Cfg
        /\ DetailStatus = "NEEDS")
        => LET amp == runs["HOVER"].lat_1r_ips
               ph == runs["HOVER"].lat_1r_phase_deg
               d == ArcBetween(ph, runs["100NR"].lat_1r_phase_deg)
               lines == ret.detail.lines
               mass == "Decision: MASS (Hub) - keep ground bal"
               aero == "Decision: AERO (Blade) - product bal"
           IN  /\ ret.exc = ""
               /\ lines[1] = "Status: NEEDS"
               /\ lines[4] = "Angle vs Ground: " \o Delta \o "=" \o ToString(d) \o DegSign
               /\ Cardinality(LinesWith(lines, "Decision:")) = 1
               /\ (lines[5] = mass) <=> (d <= 30)
               /\ (lines[5] = aero) <=> (d > 30)
               /\ d <= 30 =>
                     /\ lines[6] = "Add HUB weight: ~"
                            \o ToString(GramsFor(amp, cfgFile.hub_weight_sensitivity_ips_per_100g))
                            \o " g"
                     /\ LinesWith(lines, "Add TIP") = {}
               /\ d > 30 =>
                     /\ lines[6] = "Add TIP weights: ~"
                            \o ToString(Max(1, RoundDiv(amp * cfgFile.product_weights_per_ips, 1000)))
                            \o " units"
                     /\ lines[8] = "NOTE: tip weights are ~11x hub effect"
                     /\ lines[9] = "      and will affect ground balance"
                     /\ LinesWith(lines, "Add HUB") = {}
               /\ (ph = 80 /\ runs["100NR"].lat_1r_phase_deg = 70) => lines[5] = mass
               /\ (ph = 170 /\ runs["100NR"].lat_1r_phase_deg = 20) => lines[5] = aero

\* C14 witness: hover 0.25 ips at 170 degrees against ground at 20 degrees is
\* AERO with 5 units
C14_Witness ==
    /\ ret.op = "detail" /\ ret.step_id = "hover"
    /\ "HOVER" \in DOMAIN runs
    /\ runs["HOVER"].lat_1r_ips = 250 /\ runs["HOVER"].lat_1r_phase_deg = 170
    /\ runs["100NR"].lat_1r_phase_deg = 20
    /\ ret.detail.lines[5] = "Decision: AERO (Blade) - product bal"
    /\ ret.detail.lines[6] = "Add TIP weights: ~5 units"

\* the blades of the azimuth table at the smallest arc from the angle a
BladesNearest(a, blade_az) ==
    {blade_az[i].blade : i \in
        {j \in 1..Len(blade_az) :
            \A k \in 1..Len(blade_az) :
                ArcBetween(a, blade_az[j].az) <= ArcBetween(a, blade_az[k].az)}}

\* "0.2" for 2 tenths
TenthsText(t) == ToString(t \div 10) \o "." \o ToString(t % 10)

\* C15: when kias120 NEEDS a correction the amount is max(0.2, amplitude /
\* vertical_tab_ips_per_deg to the nearest 0.1 degree); option 1 bends UP the
\* tab of the blade nearest to the vertical phase, option 2 bends DOWN, by the
\* same amount, the tab of the blade nearest to phase + 180.
C15_TabCorrection ==
    (/\ ret.op = "detail" /\ ret.step_id = "kias120"
     /\ DetailStatus = "NEEDS")
        => LET amp == runs["120K"].vert_1r_ips
               ph == runs["120K"].vert_1r_phase_deg
               tenths == Max(2, RoundDiv(amp * 10, cfgFile.vertical_tab_ips_per_deg))
               lines == ret.detail.lines
           IN  /\ ret.exc = ""
               /\ lines[1] = "Status: NEEDS"
               /\ lines[6] = "Amount: " \o TenthsText(tenths) \o DegSign
               /\ ret.option = 1 =>
                     /\ lines[4] = "Option 1 selected"
                     /\ \E b \in BladesNearest(ph, cfgFile.blade_azimuth_deg) :
                            lines[5] = "Bend OUTBD TAB of " \o b \o " UP"
               /\ ret.option # 1 =>
                     /\ lines[4] = "Option 2 selected"
                     /\ \E b \in BladesNearest((ph + 180) % 360, cfgFile.blade_azimuth_deg) :
                            lines[5] = "Bend OUTBD TAB of " \o b \o " DOWN"

\* C15 witness: option 2 with the amount at its floor of 0.2 degrees
C15_Witness ==
    /\ ret.op = "detail" /\ ret.step_id = "kias120" /\ ret.option = 2
    /\ cfgFile = CfgStiffTab
    /\ "120K" \in DOMAIN runs
    /\ runs["120K"].vert_1r_ips = 150
    /\ ret.detail.lines[4] = "Option 2 selected"
    /\ ret.detail.lines[6] = "Amount: 0.2" \o DegSign
    /\ \E b \in {"RED", "BLU", "ORG", "GRN"} :
           ret.detail.lines[5] = "Bend OUTBD TAB of " \o b \o " DOWN"

\* the phasor sum of (g, gp) and k/2 times (a, ap): amplitudes in 1/1000 ips
PhasorSum(g, gp, a, ap, k) == VecAdd(vec(g, gp, 2), vec(a, ap, k))

\* C16: when letdown NEEDS a correction, the predicted ground-100 amplitude is
\* the magnitude of the ground-100 phasor plus the full correction phasor
\* (letdown amplitude at phase + 180); the compromise block is emitted iff
\* that magnitude exceeds ground_ips_limit, and it holds the half-strength
\* weight (full grams x 0.5 to the nearest 10 g) and the ground-100 and
\* letdown amplitudes predicted with half the correction.
C16_LetdownCompromise ==
    (/\ ret.op = "detail" /\ ret.step_id = "letdown"
     /\ cfgFile = Bht412Cfg
     /\ DetailStatus = "NEEDS")
        => LET amp == runs["LETDOWN"].lat_1r_ips
               ph == runs["LETDOWN"].lat_1r_phase_deg
               g == runs["100NR"].lat_1r_ips
               gp == runs["100NR"].lat_1r_phase_deg
               corr == (ph + 180) % 360
               full == GramsFor(amp, cfgFile.hub_weight_sensitivity_ips_per_100g)
               g_new == PhasorSum(g, gp, amp, corr, 2)
               lim == cfgFile.ground_ips_limit * 100
               over == VecAbs2(g_new) > lim * lim
               lines == ret.detail.lines
           IN  /\ ret.exc = ""
               /\ lines[1] = "Status: NEEDS"
               /\ lines[4] = "Suggested HUB weight: ~" \o ToString(full) \o " g"
               /\ lines[7] = "Check 100NR: predicted " \o Fmt3(VecAbsMilli(g_new)) \o " ips"
               /\ over <=> LinesWith(lines, "Safety compromise triggered") # {}
               /\ over <=> LinesWith(lines, "Use 50%") # {}
               /\ over =>
                     /\ Len(lines) = 13
                     /\ lines[9] = "Safety compromise triggered"
                     /\ lines[10] = "Use 50%: ~" \o ToString(10 * RoundDiv(full, 20)) \o " g"
                     /\ lines[11] = "Pred 100NR: "
                            \o Fmt3(VecAbsMilli(PhasorSum(g, gp, amp, corr, 1))) \o " ips"
                     /\ lines[12] = "Pred LET:  "
                            \o Fmt3(VecAbsMilli(PhasorSum(amp, ph, amp, corr, 1))) \o " ips"
                     /\ lines[12] = "Pred LET:  " \o Fmt3(RoundDiv(amp, 2)) \o " ips"
               /\ ~over =>
                     /\ Len(lines) = 9
                     /\ LinesWith(lines, "Pred ") = {}

\* C16 witness: letdown 0.30 ips at 90 degrees with ground 0.14 ips at 240
\* degrees predicts 0.427 ips on the ground and offers 140 g instead of 270 g
C16_Witness ==
    /\ ret.op = "detail" /\ ret.step_id = "letdown"
    /\ "LETDOWN" \in DOMAIN runs
    /\ runs["LETDOWN"].lat_1r_ips = 300 /\ runs["LETDOWN"].lat_1r_phase_deg = 90
    /\ runs["100NR"].lat_1r_ips = 140 /\ runs["100NR"].lat_1r_phase_deg = 240
    /\ Len(ret.detail.lines) = 13
    /\ ret.detail.lines[4] = "Suggested HUB weight: ~270 g"
    /\ ret.detail.lines[7] = "Check 100NR: predicted 0.427 ips"
    /\ ret.detail.lines[9] = "Safety compromise triggered"
    /\ ret.detail.lines[10] = "Use 50%: ~140 g"

\* the angle in 0..359 that differs from d by whole turns
Residue(d) == CHOOSE r \in 0..359 : \E k \in -4..4 : d = r + 360 * k

ClockLabels == {ToString(h) \o m : h \in 1..12, m \in {":00", ":30"}}

\* C17: for every angle d the clock label has an hour in 1..12 and minutes
\* 00 or 30, is the half hour nearest to d / 30 hours with 0 and 12 hours
\* shown as 12, and is the same for d + 360 and d - 360.
C17_ClockLabel ==
    ret.op = "_deg_to_clock"
        => /\ ret.value \in ClockLabels
           /\ ret.value = HalfHourLabel(NearestHalfHour(Residue(ret.deg)))
           /\ ret.value = deg_to_clock(ret.deg + 360)
           /\ ret.value = deg_to_clock(ret.deg - 360)
           /\ Residue(ret.deg) \in (0..7) \cup (353..359) => ret.value = "12:00"
           /\ Residue(ret.deg) = 250 => ret.value = "8:30"

\* C17 witness: 715 degrees, five degrees short of two turns, reads 12:00
C17_Witness ==
    /\ ret.op = "_deg_to_clock"
    /\ ret.deg = 715
    /\ ret.value = "12:00"

\* C18: for all angles a and b, negative and above 360 included, the angle
\* difference is the length of the shorter arc between them: it lies in
\* 0..180 and is the same for (a, b) and (b, a).
C18_AngleDiff ==
    ret.op = "_ang_diff_deg"
        => /\ ret.value \in 0..180
           /\ ret.value = ArcBetween(ret.a, ret.b)
           /\ ret.value = ang_diff_deg(ret.b, ret.a)

\* C18 witness: -380 and 760 degrees, more than three turns apart, differ by 60
C18_Witness ==
    /\ ret.op = "_ang_diff_deg"
    /\ ret.a = -380 /\ ret.b = 760
    /\ ret.value = 60

\* the number of pieces a line of n characters is returned in
PiecesOf(n) == IF n = 0 THEN 1 ELSE (n + 37) \div 38

\* v[i] \o ... \o v[i + n - 1]
RECURSIVE Join(_, _, _)
Join(v, i, n) == IF n = 0 THEN "" ELSE v[i] \o Join(v, i + 1, n - 1)

\* the pieces v[j..] are, line by line, the lines[i..] cut in consecutive pieces
RECURSIVE Rejoins(_, _, _, _)
Rejoins(lines, i, v, j) ==
    IF i > Len(lines) THEN j = Len(v) + 1
    ELSE LET n == PiecesOf(Len(lines[i]))
         IN  /\ j + n - 1 <= Len(v)
             /\ Join(v, j, n) = lines[i]
             /\ Rejoins(lines, i + 1, v, j + n)

AllWithin(lines, width) == \A i \in 1..Len(lines) : Len(lines[i]) <= width

\* C19: every line returned by step_detail_for_bht412 and
\* diagnose_from_result is at most 38 characters long, and wrapping loses
\* nothing: the consecutive pieces of one input line concatenate back to it.
C19_WrappedLines ==
    /\ ret.op \in {"detail", "diagnose", "_detail_hover"}
           => AllWithin(ret.detail.lines, 38)
    /\ ret.op = "_wrap"
           => /\ AllWithin(ret.value, 38)
              /\ Rejoins(ret.lines, 1, ret.value, 1)
    /\ (ret.op = "detail" /\ ret.step_id = "track60")
           => \A i \in LinesWith(ret.detail.lines, "Move ORG/GRN pair DOWN") :
                  /\ Len(ret.detail.lines[i]) = 38
                  /\ ret.detail.lines[i + 1] \in
                         {" flats"} \cup {ToString(d) \o " flats" : d \in 0..9}

\* C19 witness: the pair-separation line of 44 characters comes in two pieces
C19_Witness ==
    /\ ret.op = "detail" /\ ret.step_id = "track60"
    /\ \E i \in 1..Len(ret.detail.lines) - 1 :
           /\ StartsWith(ret.detail.lines[i], "Move ORG/GRN pair DOWN: shorten both ")
           /\ Len(ret.detail.lines[i]) = 38
           /\ ret.detail.lines[i + 1] = " flats"

\* how the weight, placement, pitch-link and tab instructions begin
InstructionPrefixes ==
    {"Add HUB", "Suggested HUB", "Use 50%", "Add TIP", "Place @", "Lengthen",
     "Move ORG/GRN", "Bend OUTBD TAB", "Amount:"}

Instructions(lines) == UNION {LinesWith(lines, p) : p \in InstructionPrefixes}

\* C20: a correction is computed only for a stage whose status is NEEDS: the
\* detail of a DONE stage ends with "No correction required." and holds no
\* weight, placement, pitch-link or tab instruction, and neither does the
\* detail of a LOCKED or MISSING stage.
C20_CorrectionOnlyWhenNeeds ==
    (/\ ret.op = "detail" /\ ret.step_id \in StepIdSet
     /\ ret.exc = "")
        => LET lines == ret.detail.lines
           IN  /\ DetailStatus = "DONE"
                     => /\ lines[1] = "Status: DONE"
                        /\ lines[Len(lines)] = "No correction required."
                        /\ Instructions(lines) = {}
               /\ DetailStatus \in {"LOCKED", "MISSING"} => Instructions(lines) = {}
               /\ Instructions(lines) # {} => DetailStatus = "NEEDS"

\* C20 witness: ground100 at 0.149 ips, just below its limit, is DONE
C20_Witness ==
    /\ ret.op = "detail" /\ ret.step_id = "ground100"
    /\ "100NR" \in DOMAIN runs
    /\ runs["100NR"].lat_1r_ips = 149
    /\ DetailStatus = "DONE"
    /\ Len(ret.detail.lines) = 4
    /\ ret.detail.lines[4] = "No correction required."

\* C21: the option affects only the kias120 detail: the summaries, the
\* next_step and the detail of every stage other than kias120 are the same
\* for option 1 and option 2.
C21_OptionOnlyKias120 ==
    /\ (ret.op = "detail" /\ ret.step_id # "kias120")
           => \A o \in Options :
                  RetDetail(step_detail_for_bht412(runs, ret.step_id, o),
                            ret.step_id, ret.option) = ret
    /\ ret.op = "diagnose"
           => \A o \in Options :
                  LET r == diagnose_from_result(runs, o)
                  IN  /\ r.summaries = ret.summaries
                      /\ r.next_step = ret.next_step
                      /\ r.exc = ret.exc
                      /\ ret.next_step # "kias120" => r.detail = ret.detail

\* C21 witness: diagnose_from_result with option 2 returns the hover detail
C21_Witness ==
    /\ ret.op = "diagnose" /\ ret.option = 2
    /\ ret.next_step = "hover"
    /\ ret.detail.lines[1] = "Status: NEEDS"
    /\ diagnose_from_result(runs, 1).detail = ret.detail

\* the hour part of a clock label
HourOf(label) == CHOOSE h \in 1..12 : StartsWith(label, ToString(h) \o ":")

\* the blade pair of the sector an hour lies in
SectorPair(h) ==
    IF h \in {11, 12, 1} THEN "GRN/ORG"
    ELSE IF h \in {2, 3, 4} THEN "RED/BLU"
    ELSE IF h \in {5, 6, 7} THEN "BLU/ORG"
    ELSE "GRN/RED"

\* C23: for every correction angle the hub split hint is chosen by the
\* integer hour of the angle's clock label: 11, 12, 1 give GRN/ORG, 2, 3, 4
\* give RED/BLU, 5, 6, 7 give BLU/ORG and 8, 9, 10 give GRN/RED; a half-hour
\* label such as 1:30 or 4:30 uses the sector of its hour part.
C23_HubSplitHint ==
    ret.op = "_hub_split_hint"
        => LET label == HalfHourLabel(NearestHalfHour(Residue(ret.deg)))
           IN  /\ ret.value = "Split nearest: " \o SectorPair(HourOf(label))
               /\ label = "1:30" => ret.value = "Split nearest: GRN/ORG"
               /\ label = "4:30" => ret.value = "Split nearest: RED/BLU"
               /\ label = "7:30" => ret.value = "Split nearest: BLU/ORG"
               /\ label = "10:30" => ret.value = "Split nearest: GRN/RED"

\* C23 witness: 135 degrees reads 4:30 and gives the pair of hour 4
C23_Witness ==
    /\ ret.op = "_hub_split_hint"
    /\ ret.deg = 135
    /\ deg_to_clock(ret.deg) = "4:30"
    /\ ret.value = "Split nearest: RED/BLU"

\* the pitch-link lines of the blades a and b in the detail lines
PairLines(lines, a, b) ==
    LinesWith(lines, "Lengthen " \o a) \cup LinesWith(lines, "Lengthen " \o b)

\* the detail treats the pair of blades a, b at heights ha, hb (mm) as C24
\* says: one line for the lower blade when the difference is out of
\* tolerance, with max(1, round(|difference| / flat)) flats, else no line
PairTreated(lines, a, ha, b, hb, cfg) ==
    LET out == Abs(ha - hb) * 10000 > cfg.track_pair_tol_in * 254
        flats == Max(1, RoundDiv(Abs(ha - hb) * 10000, 254 * cfg.pitch_link_flat_in))
        lower == IF ha < hb THEN a ELSE b
    IN  IF out
        THEN /\ Cardinality(PairLines(lines, a, b)) = 1
             /\ \A i \in PairLines(lines, a, b) :
                    lines[i] = "Lengthen " \o lower \o " pitch link: +"
                                   \o ToString(flats) \o " flats"
        ELSE PairLines(lines, a, b) = {}

\* C24: when track60 NEEDS a correction, each blade pair (RED/BLU, ORG/GRN)
\* whose height difference exceeds track_pair_tol_in gets exactly one
\* pitch-link line, naming the lower blade of the pair to be lengthened by
\* max(1, round(|difference| / pitch_link_flat_in)) flats; a pair within
\* tolerance gets no line.
C24_PitchLinkLines ==
    (/\ ret.op = "detail" /\ ret.step_id = "track60"
     /\ cfgFile = Bht412Cfg
     /\ DetailStatus = "NEEDS")
        => LET h == runs["60NR"].track_rel_mm
               lines == ret.detail.lines
           IN  /\ ret.exc = ""
               /\ lines[1] = "Status: NEEDS"
               /\ PairTreated(lines, "RED", h.RED, "BLU", h.BLU, cfgFile)
               /\ PairTreated(lines, "ORG", h.ORG, "GRN", h.GRN, cfgFile)

\* C24 witness: RED 8 mm above BLU, ORG and GRN level: BLU is lengthened by
\* 6 flats and the ORG/GRN pair gets no pitch-link line
C24_Witness ==
    /\ ret.op = "detail" /\ ret.step_id = "track60"
    /\ runs["60NR"].track_rel_mm = Track(26, 18, -22, -22)
    /\ ret.detail.lines[5] = "Lengthen BLU pitch link: +6 flats"
    /\ PairLines(ret.detail.lines, "ORG", "GRN") = {}

\* the pair-separation line for the pair named p, delta = target - measured
\* in 1/508000 in, and the flat length flat_in
SepLine(p, delta, flat_in) ==
    "Move " \o p \o " pair "
        \o (IF delta > 0 THEN "DOWN: shorten both " ELSE "UP: lengthen both ")
        \o ToString(Max(1, RoundDiv(Abs(delta), 508 * flat_in))) \o " flats"

\* the lines from index i on start with the pieces of the line full
ShowsAt(lines, i, full) ==
    LET n == PiecesOf(Len(full))
    IN  /\ i + n - 1 <= Len(lines)
        /\ Join(lines, i, n) = full

\* C25: when the measured pair separation differs from pair_separation_in by
\* more than sep_tol_in, the track60 detail emits one shared adjustment of
\* max(1, round(|target - measured| / pitch_link_flat_in)) flats applied to
\* both blades of the lower pair, the direction given by the sign of
\* (target - measured); also when the ORG/GRN pair is the higher pair.
C25_PairSeparation ==
    (/\ ret.op = "detail" /\ ret.step_id = "track60"
     /\ cfgFile = Bht412Cfg
     /\ DetailStatus = "NEEDS")
        => LET h == runs["60NR"].track_rel_mm
               sep2 == (h.RED + h.BLU) - (h.ORG + h.GRN)
               delta == cfgFile.pair_separation_in * 508 - sep2 * 10000
               out == Abs(delta) > cfgFile.sep_tol_in * 508
               lower == IF sep2 >= 0 THEN "ORG/GRN" ELSE "RED/BLU"
               lines == ret.detail.lines
           IN  /\ ret.exc = ""
               /\ out <=> LinesWith(lines, "Move ") # {}
               /\ out =>
                     /\ Cardinality(LinesWith(lines, "Move ")) = 1
                     /\ \A i \in LinesWith(lines, "Move ") :
                            ShowsAt(lines, i,
                                    SepLine(lower, delta, cfgFile.pitch_link_flat_in))

\* the azimuth of blade b in the blade table
AzOf(b) ==
    LET t == cfgFile.blade_azimuth_deg
    IN  t[CHOOSE i \in 1..Len(t) : t[i].blade = b].az

\* the blades a 120 KIAS detail names in a line "Bend OUTBD TAB of <blade> <dir>"
BladesBent(lines, dir) ==
    {b \in {"RED", "BLU", "ORG", "GRN"} : \E i \in 1..Len(lines) :
                        lines[i] = "Bend OUTBD TAB of " \o b \o " " \o dir}

\* C26: for four blade azimuths 90 degrees apart, every vertical phase and
\* every ordering of the blade table, the blade the 120 KIAS detail names for
\* option 2 is the blade 180 degrees from the blade it names for option 1.
C26_OppositeBlade ==
    (/\ ret.op = "detail" /\ ret.step_id = "kias120"
     /\ DetailStatus = "NEEDS")
        => LET up == BladesBent(step_detail_for_bht412(runs, "kias120", 1).lines, "UP")
               down == BladesBent(step_detail_for_bht412(runs, "kias120", 2).lines, "DOWN")
           IN  /\ Cardinality(up) = 1
               /\ Cardinality(down) = 1
               /\ \A b1 \in up, b2 \in down : AzOf(b2) = (AzOf(b1) + 180) % 360

\* the stages judged on the lateral channel and the config key of their limit
LatStages == {2, 3, 5}

LatLimit(i) ==
    IF i = 2 THEN cfgFile.ground_ips_limit
    ELSE IF i = 3 THEN cfgFile.hover_ips_limit
    ELSE cfgFile.letdown_ips_limit

\* the value under the canonical key when the record has it, else under the
\* legacy key when the record has that, else 0
CanonicalOrLegacy(m, canonical, legacy) ==
    IF canonical \in DOMAIN m THEN m[canonical]
    ELSE IF legacy \in DOMAIN m THEN m[legacy]
    ELSE 0

\* C27: for the lateral channel, status evaluation and detail use lat_1r_ips
\* and lat_1r_phase_deg whenever the record has those keys and fall back to
\* vib_1r_ips and vib_1r_phase_deg exactly when the canonical key is absent;
\* a record with neither key counts as amplitude 0 and phase 0.
C27_LateralKeys ==
    \A i \in LatStages :
        (/\ runs \in LatKeyRunSets
         /\ Resolves(i)
         /\ \A j \in 1..(i - 1) : step_summaries_for_bht412(runs)[j].status = "DONE")
            => LET m == FirstRecord(i)
                   amp == CanonicalOrLegacy(m, "lat_1r_ips", "vib_1r_ips")
                   ph == CanonicalOrLegacy(m, "lat_1r_phase_deg", "vib_1r_phase_deg")
                   st == IF amp < LatLimit(i) THEN "DONE" ELSE "NEEDS"
               IN  /\ HasSummaries => Stat(i) = st
                   /\ (ret.op = "detail" /\ ret.step_id = StepIds[i])
                          => /\ ret.exc = ""
                             /\ ret.detail.lines[1] = "Status: " \o st
                             /\ ret.detail.lines[2] = VibLine("LAT", amp, ph)

\* the stages of the returned summaries that are NEEDS or MISSING
OpenStages == {i \in 1..Len(ret.summaries) : Stat(i) \in {"NEEDS", "MISSING"}}

\* C28: in every evaluation track60 is never LOCKED and the first stage that
\* is not DONE is NEEDS or MISSING; so at most one stage is NEEDS or MISSING,
\* and diagnose_from_result never returns the LOCKED message as its detail.
C28_OneOpenStage ==
    (HasSummaries /\ ret.exc = "")
        => /\ Len(ret.summaries) = 5
           /\ Stat(1) # "LOCKED"
           /\ \A i \in 1..5 :
                  (Stat(i) # "DONE" /\ PriorsDone(i)) => Stat(i) \in {"NEEDS", "MISSING"}
           /\ Cardinality(OpenStages) <= 1
           /\ ret.op = "diagnose"
                  => /\ ret.detail.lines # wrap(LockedLines)
                     /\ \A k \in 1..Len(ret.detail.lines) :
                            ~StartsWith(ret.detail.lines[k], "LOCKED")

\* a diagnose_from_result that found ground100 NEEDS and the later stages LOCKED
C28_Witness ==
    /\ ret.op = "diagnose" /\ ret.exc = ""
    /\ Stat(1) = "DONE" /\ Stat(2) = "NEEDS"
    /\ \A i \in 3..5 : Stat(i) = "LOCKED"
    /\ ret.next_step = "ground100"
    /\ ret.detail.lines[1] = "Status: NEEDS"

\* C29: for every RunSet and every stage whose evaluated status is DONE or
\* NEEDS, the first line of step_detail_for_bht412 for that stage is
\* "Status: " followed by the status step_summaries_for_bht412 reports for it.
C29_DetailAgreesWithStatus ==
    (ret.op = "detail" /\ ret.step_id \in StepIdSet)
        => LET st == StatusOf(step_summaries_for_bht412(runs), ret.step_id)
           IN  st \in {"DONE", "NEEDS"}
                   => /\ ret.exc = ""
                      /\ ret.detail.lines[1] = "Status: " \o st

\* the 120 KIAS detail at a vertical amplitude equal to the limit
C29_Witness ==
    /\ ret.op = "detail" /\ ret.step_id = "kias120"
    /\ "120K" \in DOMAIN runs
    /\ runs["120K"].vert_1r_ips = cfgFile.kias120_vert_limit
    /\ ret.detail.lines[1] = "Status: NEEDS"

\* the stage a returned detail is about
DetailStage == IF ret.op = "diagnose" THEN ret.next_step ELSE ret.step_id

\* the status the summaries give to that stage
DetailStageStatus == StatusOf(step_summaries_for_bht412(runs), DetailStage)

\* C30: whenever step_detail_for_bht412 computes a hover or letdown
\* correction (the stage is NEEDS), a ground100 record resolves and its
\* lateral amplitude is below ground_ips_limit; so through the public entry
\* points the "No Ground reference available" branch is never taken and the
\* letdown detail always holds the predicted 100NR check.
C30_GroundReference ==
    (/\ ret.op \in {"detail", "diagnose"}
     /\ ret.exc = ""
     /\ DetailStage \in {"hover", "letdown"}
     /\ DetailStageStatus = "NEEDS")
        => /\ Resolves(2)
           /\ CanonicalOrLegacy(FirstRecord(2), "lat_1r_ips", "vib_1r_ips")
                  < cfgFile.ground_ips_limit
           /\ LinesWith(ret.detail.lines, "No Ground reference") = {}
           /\ DetailStage = "hover"
                  => Cardinality(LinesWith(ret.detail.lines, "Angle vs Ground: ")) = 1
           /\ DetailStage = "letdown"
                  => Cardinality(LinesWith(ret.detail.lines, "Check 100NR: predicted ")) = 1

\* diagnose_from_result returning the letdown correction with its 100NR check
C30_Witness ==
    /\ ret.op = "diagnose" /\ ret.next_step = "letdown"
    /\ DetailStageStatus = "NEEDS"
    /\ LinesWith(ret.detail.lines, "Check 100NR: predicted ") # {}

\* the session s holds an entry for state k in the RunSet of flight f
HasEntry(s, f, k) ==
    f \in DOMAIN s.measurements /\ k \in KeySet(s.measurements[f])

\* the entries of the session: flight id, state name and stored record
Entries(s) ==
    UNION {{<<f, s.measurements[f][i].state, s.measurements[f][i]>> :
                i \in 1..Len(s.measurements[f])} : f \in DOMAIN s.measurements}

\* C22: a flight's RunSet only grows.  A completed acquisition stores the
\* record of the armed regime under the current flight, as a new entry or
\* over the entry of the same name, and leaves every other entry of every
\* flight as it was; and no step of the session, whatever key is pressed,
\* removes an entry from a flight's RunSet.
C22_RunSetOnlyGrows ==
    [][/\ AutoAcquire =>
            /\ HasEntry(sim', sim.flight_id, sim.pending_test_state)
            /\ \A e \in Entries(sim) :
                    <<e[1], e[2]>> # <<sim.flight_id, sim.pending_test_state>>
                        => e \in Entries(sim')
            /\ \A e \in Entries(sim') :
                    <<e[1], e[2]>> # <<sim.flight_id, sim.pending_test_state>>
                        => e \in Entries(sim)
       /\ \A e \in Entries(sim) : HasEntry(sim', e[1], e[2])]_vars

\* the lines of a track60 detail that name an adjustment
AdjustLines(lines) == LinesWith(lines, "Lengthen ") \cup LinesWith(lines, "Move ")

\* C31: whenever track60 is NEEDS, its detail holds at least one adjustment
\* line (a pitch-link line of a pair or the pair-separation line) before the
\* line "Re-measure 60NR to validate."; each of the three kinds of line is
\* there exactly when the check of the status on it fails.
C31_NeedsHasAdjustment ==
    (/\ ret.op = "detail" /\ ret.step_id = "track60"
     /\ DetailStatus = "NEEDS")
        => LET lines == ret.detail.lines
               chk == track_checks(FirstRecord(1), cfgFile)
               last == LinesWith(lines, "Re-measure 60NR to validate.")
           IN  /\ ret.exc = ""
               /\ Cardinality(last) = 1
               /\ \E i \in AdjustLines(lines) : \A j \in last : i < j
               /\ \A i \in AdjustLines(lines) : \A j \in last : i < j
               /\ ~chk.rb_ok <=> PairLines(lines, "RED", "BLU") # {}
               /\ ~chk.og_ok <=> PairLines(lines, "ORG", "GRN") # {}
               /\ ~chk.sep_ok <=> LinesWith(lines, "Move ") # {}

\* C31 witness: both pairs level, the pairs 40 mm apart against a target of
\* 44.45 mm: the detail holds the pair-separation line alone
C31_Witness ==
    /\ ret.op = "detail" /\ ret.step_id = "track60"
    /\ runs["60NR"].track_rel_mm = Track(18, 18, -22, -22)
    /\ DetailStatus = "NEEDS"
    /\ PairLines(ret.detail.lines, "RED", "BLU") = {}
    /\ PairLines(ret.detail.lines, "ORG", "GRN") = {}
    /\ LinesWith(ret.detail.lines, "Move ") # {}

\* the alias names of the stages in the set js
AliasesOf(js) ==
    UNION {{cfgFile.state_map[StepIds[j]][k] :
                k \in 1..Len(cfgFile.state_map[StepIds[j]])} : j \in js}

\* rs with the c-th record of the name n under n, without the key n for c = 0
WithRecord(rs, n, c) ==
    [m \in (DOMAIN rs \ {n}) \cup (IF c = 0 THEN {} ELSE {n}) |->
        IF m = n THEN RecordsFor[n][c] ELSE rs[m]]

\* the RunSets that differ from rs under one name outside the set fixed.  Two
\* RunSets over Names that agree on fixed are joined by a chain of such
\* changes, each RunSet of the chain being one of RunSets.
Variants(rs, fixed) ==
    UNION {{WithRecord(rs, n, c) : c \in 0..Len(RecordsFor[n])} :
              n \in Names \ fixed} \ {rs}

\* the statuses of the stages js are the same for rs as in the returned list
SameStatuses(rs, js) ==
    LET s == step_summaries_for_bht412(rs)
    IN  \A j \in js : s[j].status = Stat(j)

\* C32: the statuses of stages 1..i depend only on the records resolved for
\* stages 1..i: a RunSet that agrees with the evaluated one on the alias
\* names of stages 1..i has the same statuses for stages 1..i; and a RunSet
\* that differs from it only under an alias name of a LOCKED stage has the
\* same five statuses.
C32_StatusesDependOnPrefix ==
    (ret.op = "summaries" /\ ret.exc = "")
        => /\ \A i \in 1..5 :
                \A r2 \in Variants(runs, AliasesOf(1..i)) :
                    SameStatuses(r2, 1..i)
           /\ \A k \in 1..5 :
                Stat(k) = "LOCKED"
                    => \A r2 \in Variants(runs, Names \ AliasesOf({k})) :
                          SameStatuses(r2, 1..5)

\* C32 witness: ground100 NEEDS and hover LOCKED; a RunSet with another hover
\* record and one with a letdown record added have the same statuses
C32_Witness ==
    /\ ret.op = "summaries"
    /\ Stat(1) = "DONE" /\ Stat(2) = "NEEDS" /\ Stat(3) = "LOCKED"
    /\ \E r2 \in Variants(runs, Names \ AliasesOf({3})) :
            /\ Get(r2, "HOVER", EmptyRec) # Get(runs, "HOVER", EmptyRec)
            /\ SameStatuses(r2, 1..5)
    /\ \E r2 \in Variants(runs, AliasesOf(1..2)) :
            /\ "LETDOWN" \in DOMAIN r2 /\ "LETDOWN" \notin DOMAIN runs
            /\ SameStatuses(r2, 1..2)

\* C33: when letdown is NEEDS and the detail emits no safety compromise, the
\* ground-100 amplitude predicted under the full correction passes the test
\* of the ground100 status, amplitude strictly below ground_ips_limit; a
\* predicted amplitude equal to the limit is flagged.
C33_UnflaggedPredictionPasses ==
    (/\ ret.op = "detail" /\ ret.step_id = "letdown"
     /\ DetailStatus = "NEEDS"
     /\ ret.exc = ""
     /\ LinesWith(ret.detail.lines, "Safety compromise triggered") = {})
        => LET m == FirstRecord(5)
               gnd == FirstRecord(2)
               g_new == PhasorSum(LatAmp(gnd), LatPhase(gnd),
                                  LatAmp(m), CorrDeg(LatPhase(m)), 2)
               lim == cfgFile.ground_ips_limit * 100
           IN  VecAbs2(g_new) < lim * lim

\* the LCD of the corrections screen holds the line s
LcdShows(s) == \E i \in 1..Len(ret.detail.lines) : ret.detail.lines[i] = ljust38(s)

\* C34: page 2/2 of the DIAGS corrections screen shows "No corrections
\* required." / "All steps DONE." only when all five stages of the active
\* flight are DONE; with a stage MISSING or LOCKED it does not say that all
\* steps are done.
C34_AllDoneOnlyWhenDone ==
    (/\ ret.op = "_render_corrections"
     /\ ret.exc = ""
     /\ LcdShows("CORRECTIONS  FLT " \o (IF DOMAIN runs = {} THEN "-" ELSE "2")
                    \o "  2/2"))
        => ((LcdShows("No corrections required.") \/ LcdShows("All steps DONE."))
                => \A j \in 1..5 :
                       step_summaries_for_bht412(runs)[j].status = "DONE")

\* C35: after any sequence of dispatched keys and automatic acquisitions the
\* navigation stack is non-empty and every id on it is a registered screen,
\* so that RADSState.current finds its screen
C35_StackRegistered ==
    /\ Len(sim.stack) >= 1
    /\ \A i \in 1..Len(sim.stack) : sim.stack[i] \in Screens

\* an acquisition is stored and the DIAGS menu has opened one of its screens
C35_Witness ==
    /\ Acquired(sim) >= 1
    /\ Len(sim.stack) = NavDepth
    /\ current(sim) = "diags_corrections"

\* C36: whenever the current screen is measure_test_status or
\* measure_acq_done, measure_select_test is on the stack below it, so the
\* pop-until loop of QUIT ends with measure_select_test on top; the loop is
\* never left running on a stack of one screen
C36_TestListBelow ==
    /\ ~sim.hung
    /\ current(sim) \in {"measure_test_status", "measure_acq_done"} =>
        /\ \E i \in 1..(Len(sim.stack) - 1) :
                sim.stack[i] = "measure_select_test"
        /\ sim.powered =>
            LET q == dispatch(sim, "QUIT")
            IN  ~q.hung /\ current(q) = "measure_select_test"

\* QUIT after a stored acquisition: the loop pops measure_acq_done and
\* measure_test_status
C36_Witness ==
    /\ sim.powered
    /\ current(sim) = "measure_acq_done"
    /\ Acquired(sim) = 1
    /\ Len(dispatch(sim, "QUIT").stack) = Len(sim.stack) - 2

\* C37: pressing QUIT on any screen never increases the depth of the
\* navigation stack
C37_QuitNeverDeepens ==
    sim.powered => Len(dispatch(sim, "QUIT").stack) <= Len(sim.stack)

\* the flights and regimes whose entry a step wrote
StoredBy(s, t) ==
    {f \in DOMAIN t.measurements :
        f \notin DOMAIN s.measurements
            \/ t.measurements[f] # s.measurements[f]}

\* C38: a measurement is stored only while the unit is powered, the current
\* screen is measure_measuring with an armed acquisition, the tail number is
\* non-empty and the flight id is set; every key of measurements is a
\* non-empty flight id other than "?"; pending_acq is false after the
\* acquisition step
C38_StoredOnlyWhenArmed ==
    /\ [](\A f \in DOMAIN sim.measurements : f # <<>> /\ f # <<"?">>)
    /\ [][/\ StoredBy(sim, sim') # {} =>
                /\ sim.powered
                /\ current(sim) = "measure_measuring"
                /\ sim.pending_acq
                /\ sim.tail_number # <<>>
                /\ HasFlightId(sim)
                /\ StoredBy(sim, sim') = {sim.flight_id}
          /\ AutoAcquire => ~sim'.pending_acq]_vars

\* the second acquisition of the session has been stored
C38_Witness ==
    /\ Acquired(sim) = MaxAcq
    /\ current(sim) = "measure_acq_done"
    /\ ~sim.pending_acq
    /\ DOMAIN sim.measurements # {}

\* how often the session has acquired regime t of flight f
CountOf(s, f, t) == GetOr(GetOr(s.acq_counts, f, EmptyRec), t, 0)

\* C39: in every state, after Reset Session and after a power cycle too, a
\* flight's measurements hold regime t exactly when acq_counts of the flight
\* and regime is at least 1
C39_CountsMatchEntries ==
    \A f \in DOMAIN sim.measurements \cup DOMAIN sim.acq_counts :
        \A t \in KeySet(GetOr(sim.measurements, f, <<>>))
                    \cup DOMAIN GetOr(sim.acq_counts, f, EmptyRec) :
            HasEntry(sim, f, t) <=> CountOf(sim, f, t) >= 1

=============================================================================
